---- MODULE Spec2Model ----
(***************************************************************************)
(* A model of the GitHub Explorer core: the in-memory cache created by     *)
(* AppConfig.createMemoryCache, the retrying HttpClient, the               *)
(* GitHubUserRepository gateway and the two use cases GetUserUseCase and   *)
(* GetUserRepositoriesUseCase.                                             *)
(*                                                                         *)
(* JavaScript values are records [t, s, n] (type tag, string part, number  *)
(* part); JavaScript objects are functions from property names to such     *)
(* values; strings that the code takes apart (identifiers, cache keys) are *)
(* sequences of one-character strings.                                     *)
(***************************************************************************)
EXTENDS Integers, Sequences, FiniteSets, TLC

VARIABLES
  store,     \* createMemoryCache: the Map  key -> [value, expiresAt]
  now,       \* Date.now(), in milliseconds
  ticks,     \* how many times the clock has advanced
  cacheLog,  \* the last operation made on the cache object and what it returned
  http,      \* one HttpClient.request call: its loop position and outcome
  execs,     \* the use-case executions made so far (the last two are kept)
  hook       \* useUser: its React state, its two refs and the calls made on it

vars == <<store, now, ticks, cacheLog, http, execs, hook>>

----------------------------------------------------------------------------
(* Bounds of the model *)

MaxTicks == 3
MaxRetryConfig == 3
MaxExecs == 2
MaxNameLen == 3
MaxCalls == 3

----------------------------------------------------------------------------
(* JavaScript values *)

JUndef == [t |-> "undefined", s |-> "", n |-> 0]
JNull == [t |-> "null", s |-> "", n |-> 0]
JNaN == [t |-> "number", s |-> "NaN", n |-> 0]
JNum(k) == [t |-> "number", s |-> "", n |-> k]
JStr(x) == [t |-> "string", s |-> x, n |-> 0]
JBool(b) == [t |-> "boolean", s |-> "", n |-> IF b THEN 1 ELSE 0]
\* a Date object holding the instant ms (milliseconds)
JDate(ms) == [t |-> "date", s |-> "", n |-> ms]
\* a Date object holding midnight of day d (days, d may be negative), and the
\* ISO 8601 string for that instant, as the API sends it and toISOString gives
JDay(d) == [t |-> "date", s |-> "day", n |-> d]
JIsoDay(d) == [t |-> "string", s |-> "iso-day", n |-> d]

\* ToBoolean: what `!v`, `v || d` and `v ? a : b` test
Truthy(v) ==
  CASE v.t = "undefined" -> FALSE
    [] v.t = "null" -> FALSE
    [] v.t = "boolean" -> v.n = 1
    [] v.t = "number" -> v.s # "NaN" /\ v.n # 0
    [] v.t = "string" -> v.s # ""
    [] OTHER -> TRUE

\* obj[name] of a JavaScript object: undefined when the property is absent
Prop(obj, name) == IF name \in DOMAIN obj THEN obj[name] ELSE JUndef

----------------------------------------------------------------------------
(* Strings the code takes apart: sequences of one-character strings *)

Digits == {"0", "1", "2", "3", "4", "5", "6", "7", "8", "9"}
DigitVal(c) ==
  CASE c = "0" -> 0 [] c = "1" -> 1 [] c = "2" -> 2 [] c = "3" -> 3 [] c = "4" -> 4
    [] c = "5" -> 5 [] c = "6" -> 6 [] c = "7" -> 7 [] c = "8" -> 8 [] c = "9" -> 9

UpperChars == <<"A", "B", "C", "D", "E", "F", "G", "H", "I", "J", "K", "L", "M",
                "N", "O", "P", "Q", "R", "S", "T", "U", "V", "W", "X", "Y", "Z">>
LowerChars == <<"a", "b", "c", "d", "e", "f", "g", "h", "i", "j", "k", "l", "m",
                "n", "o", "p", "q", "r", "s", "t", "u", "v", "w", "x", "y", "z">>
Range(f) == {f[i] : i \in DOMAIN f}
Whitespace == {" ", "\t", "\n"}

LowerChar(c) ==
  IF c \in Range(UpperChars)
  THEN LowerChars[CHOOSE i \in DOMAIN UpperChars : UpperChars[i] = c]
  ELSE c

\* String.prototype.toLowerCase
toLowerCase(cs) == [i \in DOMAIN cs |-> LowerChar(cs[i])]

\* String.prototype.trim
RECURSIVE trimStart(_)
trimStart(cs) ==
  IF cs # <<>> /\ Head(cs) \in Whitespace THEN trimStart(Tail(cs)) ELSE cs
RECURSIVE trimEnd(_)
trimEnd(cs) ==
  IF cs # <<>> /\ cs[Len(cs)] \in Whitespace
  THEN trimEnd(SubSeq(cs, 1, Len(cs) - 1)) ELSE cs
trim(cs) == trimEnd(trimStart(cs))

\* the character class [a-zA-Z0-9]
IsAlnum(c) == c \in Range(UpperChars) \cup Range(LowerChars) \cup Digits

\* a value a caller may pass for a string parameter
StrArg(cs) == [type |-> "string", chars |-> cs, n |-> 0]
UndefArg == [type |-> "undefined", chars |-> <<>>, n |-> 0]
NullArg == [type |-> "null", chars |-> <<>>, n |-> 0]
NumArg(k) == [type |-> "number", chars |-> <<>>, n |-> k]
\* !arg
ArgFalsy(a) ==
  \/ a.type \in {"undefined", "null"}
  \/ (a.type = "string" /\ a.chars = <<>>)
  \/ (a.type = "number" /\ a.n = 0)

----------------------------------------------------------------------------
(* createMemoryCache (src/src/main.js) *)

DefaultTtlSeconds == 300

EmptyStore == [k \in {} |-> [value |-> JNull, expiresAt |-> JNull]]

\* get(key) with the expiration test left out
cache_get_noExpiry(st, clock, key) ==
  IF key \notin DOMAIN st
  THEN [result |-> [hit |-> FALSE, value |-> JNull], store |-> st]
  ELSE [result |-> [hit |-> TRUE, value |-> st[key].value], store |-> st]

\* get(key): what it returns (hit = FALSE is the null it returns for an absent
\* or expired entry) and the Map afterwards; a read past expiresAt deletes
cache_get(st, clock, key) ==
  IF key \notin DOMAIN st
  THEN [result |-> [hit |-> FALSE, value |-> JNull], store |-> st]
  ELSE IF Truthy(st[key].expiresAt) /\ clock > st[key].expiresAt.n
       THEN [result |-> [hit |-> FALSE, value |-> JNull],
             store |-> [k \in DOMAIN st \ {key} |-> st[k]]]
       ELSE [result |-> [hit |-> TRUE, value |-> st[key].value], store |-> st]

\* set(key, value, ttlSeconds = 300): the default applies to an omitted argument
cache_set(st, clock, key, value, ttlArg) ==
  LET ttlSeconds == IF ttlArg.t = "undefined" THEN JNum(DefaultTtlSeconds) ELSE ttlArg
      expiresAt == IF Truthy(ttlSeconds) THEN JNum(clock + ttlSeconds.n * 1000)
                   ELSE JNull
  IN [k \in DOMAIN st \cup {key} |->
        IF k = key THEN [value |-> value, expiresAt |-> expiresAt] ELSE st[k]]

\* del(key): Map.delete
cache_del(st, key) == [k \in DOMAIN st \ {key} |-> st[k]]

\* flush(): Map.clear
cache_flush(st) == EmptyStore

\* getStats().keys
cache_keys(st) == DOMAIN st

----------------------------------------------------------------------------
(* Domain errors (src/unnamed/part_003) and the errors axios rejects with *)

NoCause == [name |-> "none"]
NoHdr == [present |-> FALSE, chars |-> <<>>]
Hdr(cs) == [present |-> TRUE, chars |-> cs]

\* every thrown value has this shape; name is the class (instanceof)
BaseErr ==
  [name |-> "Error", hasResponse |-> FALSE, status |-> 0, code |-> "",
   resetHdr |-> NoHdr, limitHdr |-> "",
   limit |-> JUndef, reset |-> JUndef,
   field |-> "", username |-> <<>>, about |-> <<>>, cause |-> NoCause]

UserNotFoundError(username) ==
  [BaseErr EXCEPT !.name = "UserNotFoundError", !.username = username]
NetworkError(about, originalError) ==
  [BaseErr EXCEPT !.name = "NetworkError", !.about = about, !.cause = originalError]
RateLimitError(limit, reset) ==
  [BaseErr EXCEPT !.name = "RateLimitError", !.limit = limit, !.reset = reset]
ValidationError(field) ==
  [BaseErr EXCEPT !.name = "ValidationError", !.field = field]
\* a plain Error, as the entity constructors throw
PlainError(what) == [BaseErr EXCEPT !.name = "Error", !.field = what]

\* a parsed JSON document (a response body, or JSON.parse of a cached text):
\* null, an object, or an array of objects
EmptyObj == [k \in {} |-> JUndef]
NullBody == [kind |-> "null", obj |-> EmptyObj, items |-> <<>>]
ObjBody(o) == [kind |-> "object", obj |-> o, items |-> <<>>]
ArrBody(xs) == [kind |-> "array", obj |-> EmptyObj, items |-> xs]

\* what one attempt of axios ends with: a response (ok), or a rejection with a
\* response (an HTTP status outside 2xx) or without one (a network failure)
OkResponse(data) ==
  [ok |-> TRUE, hasResponse |-> TRUE, status |-> 200, code |-> "",
   resetHdr |-> NoHdr, limitHdr |-> "", data |-> data]
HttpFailure(status, resetHdr, limitHdr) ==
  [ok |-> FALSE, hasResponse |-> TRUE, status |-> status, code |-> "ERR_BAD_RESPONSE",
   resetHdr |-> resetHdr, limitHdr |-> limitHdr, data |-> NullBody]
NetFailure(code) ==
  [ok |-> FALSE, hasResponse |-> FALSE, status |-> 0, code |-> code,
   resetHdr |-> NoHdr, limitHdr |-> "", data |-> NullBody]

\* the error object axios rejects with for a failed attempt
AxiosError(a) ==
  [BaseErr EXCEPT !.name = "AxiosError", !.hasResponse = a.hasResponse,
                  !.status = a.status, !.code = a.code,
                  !.resetHdr = a.resetHdr, !.limitHdr = a.limitHdr]

----------------------------------------------------------------------------
(* User entity (src/unnamed/part_003) *)

DayMs == 86400000
ActiveDays == 30

OrNull(v) == IF Truthy(v) THEN v ELSE JNull
\* x || 0 without the Math.max
ClampCount_keepNegative(v) == JNum(IF Truthy(v) THEN v.n ELSE 0)
\* Math.max(0, x || 0)
ClampCount(v) == JNum(IF Truthy(v) /\ v.n > 0 THEN v.n ELSE 0)

\* parseDate(dateString): null for a missing or unparsable string
parseDate(v) ==
  IF ~Truthy(v) THEN JNull
  ELSE IF v.t = "string" /\ v.s = "iso-day" THEN JDay(v.n)
  ELSE JNull

\* formatBlogUrl(blog), on the blog strings of the payloads: "   " trims to
\* the empty string, "b.example" has no protocol
formatBlogUrl(blog) ==
  LET trimmed == IF blog.s = "   " THEN "" ELSE blog.s
      hasProtocol == trimmed \in {"http://b.example", "https://b.example"}
  IN IF ~Truthy(blog) \/ blog.t # "string" THEN JNull
     ELSE IF trimmed = "" THEN JNull
     ELSE IF ~hasProtocol THEN JStr(IF trimmed = "b.example" THEN "https://b.example"
                                    ELSE trimmed)
     ELSE JStr(trimmed)

\* new User({...}): validateRequiredFields, then the field assignments
NewUser(a) ==
  IF ~Truthy(a.id) THEN [ok |-> FALSE, user |-> EmptyObj, error |-> PlainError("id")]
  ELSE IF ~Truthy(a.login) \/ a.login.t # "string"
       THEN [ok |-> FALSE, user |-> EmptyObj, error |-> PlainError("login")]
  ELSE IF ~Truthy(a.avatarUrl)
       THEN [ok |-> FALSE, user |-> EmptyObj, error |-> PlainError("avatarUrl")]
  ELSE IF ~Truthy(a.htmlUrl)
       THEN [ok |-> FALSE, user |-> EmptyObj, error |-> PlainError("htmlUrl")]
  ELSE [ok |-> TRUE, error |-> BaseErr,
        user |-> [id |-> a.id, login |-> a.login, name |-> OrNull(a.name),
                  email |-> OrNull(a.email), bio |-> OrNull(a.bio),
                  avatarUrl |-> a.avatarUrl, htmlUrl |-> a.htmlUrl,
                  location |-> OrNull(a.location), company |-> OrNull(a.company),
                  blog |-> formatBlogUrl(a.blog),
                  twitterUsername |-> OrNull(a.twitterUsername),
                  followers |-> ClampCount(a.followers),
                  following |-> ClampCount(a.following),
                  publicRepos |-> ClampCount(a.publicRepos),
                  createdAt |-> parseDate(a.createdAt),
                  updatedAt |-> parseDate(a.updatedAt)]]

\* User.fromGitHubAPI(apiData)
User_fromGitHubAPI(apiData) ==
  NewUser([id |-> Prop(apiData, "id"), login |-> Prop(apiData, "login"),
           name |-> Prop(apiData, "name"), email |-> Prop(apiData, "email"),
           bio |-> Prop(apiData, "bio"), avatarUrl |-> Prop(apiData, "avatar_url"),
           htmlUrl |-> Prop(apiData, "html_url"),
           location |-> Prop(apiData, "location"),
           company |-> Prop(apiData, "company"), blog |-> Prop(apiData, "blog"),
           twitterUsername |-> Prop(apiData, "twitter_username"),
           followers |-> Prop(apiData, "followers"),
           following |-> Prop(apiData, "following"),
           publicRepos |-> Prop(apiData, "public_repos"),
           createdAt |-> Prop(apiData, "created_at"),
           updatedAt |-> Prop(apiData, "updated_at")])

\* get hasCompleteProfile
hasCompleteProfile(u) == Truthy(u.name) /\ Truthy(u.bio) /\ Truthy(u.location)
\* get engagementScore: Math.round(followers * 0.7 + publicRepos * 0.3)
engagementScore(u) == (7 * u.followers.n + 3 * u.publicRepos.n + 5) \div 10
\* get isActiveUser: updatedAt later than 30 days before the clock
isActiveUser(u, clock) ==
  u.updatedAt.t = "date" /\ u.updatedAt.n + ActiveDays > clock \div DayMs

\* date?.toISOString()
OptIso(v) == IF v.t = "date" THEN JIsoDay(v.n) ELSE JUndef

\* toJSON()
User_toJSON(u, clock) ==
  [id |-> u.id, login |-> u.login, name |-> u.name, email |-> u.email,
   bio |-> u.bio, avatarUrl |-> u.avatarUrl, htmlUrl |-> u.htmlUrl,
   location |-> u.location, company |-> u.company, blog |-> u.blog,
   twitterUsername |-> u.twitterUsername, followers |-> u.followers,
   following |-> u.following, publicRepos |-> u.publicRepos,
   createdAt |-> OptIso(u.createdAt), updatedAt |-> OptIso(u.updatedAt),
   hasCompleteProfile |-> JBool(hasCompleteProfile(u)),
   engagementScore |-> JNum(engagementScore(u)),
   isActiveUser |-> JBool(isActiveUser(u, clock))]

\* JSON.stringify of one value: NaN becomes null, a Date its ISO string
JsonValue(v) ==
  IF v.t = "number" /\ v.s = "NaN" THEN JNull
  ELSE IF v.t = "date" THEN (IF v.s = "NaN" THEN JNull ELSE JIsoDay(v.n))
  ELSE v

\* JSON.parse(JSON.stringify(object)): properties holding undefined are dropped
JsonObject(o) ==
  [k \in {x \in DOMAIN o : o[x].t # "undefined"} |-> JsonValue(o[k])]

----------------------------------------------------------------------------
(* Repository entity (src/unnamed/part_002) *)

PopularStars == 100
NewRepositoryDays == 30

\* Boolean(x)
ToBool(v) == JBool(Truthy(v))

\* new Repository({...}): validateRequiredFields, then the field assignments
NewRepository(a) ==
  IF ~Truthy(a.id)
  THEN [ok |-> FALSE, repo |-> EmptyObj, error |-> PlainError("id")]
  ELSE IF ~Truthy(a.name) \/ a.name.t # "string"
       THEN [ok |-> FALSE, repo |-> EmptyObj, error |-> PlainError("name")]
  ELSE IF ~Truthy(a.fullName) \/ a.fullName.t # "string"
       THEN [ok |-> FALSE, repo |-> EmptyObj, error |-> PlainError("fullName")]
  ELSE IF ~Truthy(a.htmlUrl)
       THEN [ok |-> FALSE, repo |-> EmptyObj, error |-> PlainError("htmlUrl")]
  ELSE [ok |-> TRUE, error |-> BaseErr,
        repo |-> [id |-> a.id, name |-> a.name, fullName |-> a.fullName,
                  description |-> OrNull(a.description), htmlUrl |-> a.htmlUrl,
                  language |-> OrNull(a.language),
                  stargazersCount |-> ClampCount(a.stargazersCount),
                  forksCount |-> ClampCount(a.forksCount),
                  watchersCount |-> ClampCount(a.watchersCount),
                  size |-> ClampCount(a.size),
                  defaultBranch |-> IF Truthy(a.defaultBranch) THEN a.defaultBranch
                                    ELSE JStr("main"),
                  isPrivate |-> ToBool(a.isPrivate), isFork |-> ToBool(a.isFork),
                  hasIssues |-> ToBool(a.hasIssues),
                  hasProjects |-> ToBool(a.hasProjects),
                  hasWiki |-> ToBool(a.hasWiki), hasPages |-> ToBool(a.hasPages),
                  createdAt |-> parseDate(a.createdAt),
                  updatedAt |-> parseDate(a.updatedAt),
                  pushedAt |-> parseDate(a.pushedAt),
                  owner |-> a.owner]]

\* Repository.fromGitHubAPI(apiData)
Repository_fromGitHubAPI(apiData) ==
  NewRepository(
    [id |-> Prop(apiData, "id"), name |-> Prop(apiData, "name"),
     fullName |-> Prop(apiData, "full_name"),
     description |-> Prop(apiData, "description"),
     htmlUrl |-> Prop(apiData, "html_url"), language |-> Prop(apiData, "language"),
     stargazersCount |-> Prop(apiData, "stargazers_count"),
     forksCount |-> Prop(apiData, "forks_count"),
     watchersCount |-> Prop(apiData, "watchers_count"),
     size |-> Prop(apiData, "size"),
     defaultBranch |-> Prop(apiData, "default_branch"),
     isPrivate |-> Prop(apiData, "private"), isFork |-> Prop(apiData, "fork"),
     hasIssues |-> Prop(apiData, "has_issues"),
     hasProjects |-> Prop(apiData, "has_projects"),
     hasWiki |-> Prop(apiData, "has_wiki"), hasPages |-> Prop(apiData, "has_pages"),
     createdAt |-> Prop(apiData, "created_at"),
     updatedAt |-> Prop(apiData, "updated_at"),
     pushedAt |-> Prop(apiData, "pushed_at"), owner |-> Prop(apiData, "owner")])

\* formatNumber(num): the digits of a number below 1000, else the tenths of
\* thousands ("k") or of millions ("M") that toFixed(1) prints
formatNumber(num) ==
  IF num >= 1000000 THEN [t |-> "string", s |-> "M", n |-> (num + 50000) \div 100000]
  ELSE IF num >= 1000 THEN [t |-> "string", s |-> "k", n |-> (num + 50) \div 100]
  ELSE [t |-> "string", s |-> "digits", n |-> num]

\* get popularityScore
popularityScore(r) ==
  r.stargazersCount.n * 3 + r.forksCount.n * 2 + r.watchersCount.n
\* get isActiveRepository: pushedAt later than 30 days before the clock
isActiveRepository(r, clock) ==
  r.pushedAt.t = "date" /\ r.pushedAt.n + ActiveDays > clock \div DayMs
\* get isPopular
isPopular(r) == r.stargazersCount.n >= PopularStars
\* get isWellMaintained
isWellMaintained(r, clock) ==
  r.hasIssues.n = 1 /\ r.hasWiki.n = 1 /\ isActiveRepository(r, clock)
\* get ageInDays: Math.ceil(Math.abs(now - createdAt) / one day), null without
\* a creation date
ageInDays(r, clock) ==
  IF r.createdAt.t # "date" THEN JNull
  ELSE IF r.createdAt.n > clock \div DayMs
       THEN JNum(r.createdAt.n - (clock \div DayMs))
       ELSE JNum((clock \div DayMs) - r.createdAt.n
                 + (IF clock % DayMs = 0 THEN 0 ELSE 1))
\* get isNewRepository
isNewRepository(r, clock) ==
  ageInDays(r, clock).t = "number" /\ ageInDays(r, clock).n <= NewRepositoryDays

\* toJSON()
Repository_toJSON(r, clock) ==
  [id |-> r.id, name |-> r.name, fullName |-> r.fullName,
   description |-> r.description, htmlUrl |-> r.htmlUrl, language |-> r.language,
   stargazersCount |-> r.stargazersCount, forksCount |-> r.forksCount,
   watchersCount |-> r.watchersCount, size |-> r.size,
   defaultBranch |-> r.defaultBranch, isPrivate |-> r.isPrivate,
   isFork |-> r.isFork, hasIssues |-> r.hasIssues, hasProjects |-> r.hasProjects,
   hasWiki |-> r.hasWiki, hasPages |-> r.hasPages,
   createdAt |-> OptIso(r.createdAt), updatedAt |-> OptIso(r.updatedAt),
   pushedAt |-> OptIso(r.pushedAt), owner |-> r.owner,
   popularityScore |-> JNum(popularityScore(r)),
   isActiveRepository |-> JBool(isActiveRepository(r, clock)),
   isPopular |-> JBool(isPopular(r)),
   isWellMaintained |-> JBool(isWellMaintained(r, clock)),
   ageInDays |-> ageInDays(r, clock),
   isNewRepository |-> JBool(isNewRepository(r, clock))]

\* an item of a result list: a Repository instance, or the plain object that
\* JSON.parse gives back for one
Instance(r) == [class |-> "Repository", props |-> r]
Plain(o) == [class |-> "Object", props |-> o]

\* item[name] as a caller reads it: an own property, or one of the getters of
\* the class when the item is an instance of it
ReadProperty(item, name, clock) ==
  IF name \in DOMAIN item.props THEN item.props[name]
  ELSE IF item.class # "Repository" THEN JUndef
  ELSE CASE name = "formattedStars" -> formatNumber(item.props.stargazersCount.n)
         [] name = "formattedForks" -> formatNumber(item.props.forksCount.n)
         [] name = "popularityScore" -> JNum(popularityScore(item.props))
         [] name = "isActiveRepository" -> JBool(isActiveRepository(item.props, clock))
         [] name = "isPopular" -> JBool(isPopular(item.props))
         [] name = "isWellMaintained" -> JBool(isWellMaintained(item.props, clock))
         [] name = "ageInDays" -> ageInDays(item.props, clock)
         [] name = "isNewRepository" -> JBool(isNewRepository(item.props, clock))
         [] OTHER -> JUndef

----------------------------------------------------------------------------
(* HttpClient (src/CREATE_ENV_PR.md) *)

\* AppConfig: new HttpClient({retryAttempts: 3, retryDelay: 1000})
AppRetryAttempts == 3
AppRetryDelay == 1000

\* constructor: this.retryAttempts = config.retryAttempts || 3
DefaultRetryAttempts == 3
ConfiguredRetryAttempts(cfg) == IF cfg = 0 THEN DefaultRetryAttempts ELSE cfg

\* parseInt(string): the number its leading decimal digits spell, NaN without any
RECURSIVE ParseDigits(_, _)
ParseDigits(cs, acc) ==
  IF cs = <<>> \/ Head(cs) \notin Digits THEN acc
  ELSE ParseDigits(Tail(cs), acc * 10 + DigitVal(Head(cs)))
parseInt(cs) ==
  IF cs = <<>> \/ Head(cs) \notin Digits THEN JNaN ELSE JNum(ParseDigits(cs, 0))

\* new Date(ms): an Invalid Date for NaN
NewDate(v) == IF v.s = "NaN" THEN [t |-> "date", s |-> "NaN", n |-> 0] ELSE JDate(v.n)

\* shouldRetry with the rate-limit case taken for a fatal 4xx
shouldRetry_no429(error, attempt, retryAttempts) ==
  IF attempt >= retryAttempts THEN FALSE
  ELSE IF error.hasResponse /\ error.status >= 400 /\ error.status < 500 THEN FALSE
  ELSE \/ error.code \in {"ECONNRESET", "ETIMEDOUT", "ENOTFOUND", "ECONNREFUSED"}
       \/ (error.hasResponse /\ error.status >= 500)
       \/ error.code = "ECONNABORTED"

\* shouldRetry with the server-error case forgotten
shouldRetry_no5xx(error, attempt, retryAttempts) ==
  IF attempt >= retryAttempts THEN FALSE
  ELSE IF error.hasResponse /\ error.status >= 400 /\ error.status < 500
          /\ error.status # 429
       THEN FALSE
       ELSE \/ error.code \in {"ECONNRESET", "ETIMEDOUT", "ENOTFOUND", "ECONNREFUSED"}
            \/ (error.hasResponse /\ error.status = 429)
            \/ error.code = "ECONNABORTED"

\* shouldRetry(error, attempt)
shouldRetry(error, attempt, retryAttempts) ==
  IF attempt >= retryAttempts THEN FALSE
  ELSE IF error.hasResponse /\ error.status >= 400 /\ error.status < 500
          /\ error.status # 429
       THEN FALSE
       ELSE LET isNetworkError ==
                  error.code \in {"ECONNRESET", "ETIMEDOUT", "ENOTFOUND", "ECONNREFUSED"}
                isServerError == error.hasResponse /\ error.status >= 500
                isRateLimit == error.hasResponse /\ error.status = 429
                isTimeout == error.code = "ECONNABORTED"
            IN isNetworkError \/ isServerError \/ isRateLimit \/ isTimeout

\* transformError that forgets the seconds-to-milliseconds factor
transformError_noScale(error, clock) ==
  IF error.hasResponse /\ error.status = 429
  THEN RateLimitError(IF error.limitHdr # "" THEN JStr(error.limitHdr) ELSE JStr("unknown"),
                      IF error.resetHdr.present /\ error.resetHdr.chars # <<>>
                      THEN NewDate(parseInt(error.resetHdr.chars))
                      ELSE JDate(clock))
  ELSE NetworkError(<<>>, error)

\* transformError(error); clock is what new Date() reads
transformError(error, clock) ==
  IF error.hasResponse /\ error.status = 429
  THEN LET resetTime == error.resetHdr
           parsed == parseInt(resetTime.chars)
           resetDate == IF resetTime.present /\ resetTime.chars # <<>>
                        THEN NewDate(IF parsed.s = "NaN" THEN parsed
                                     ELSE JNum(parsed.n * 1000))
                        ELSE JDate(clock)
       IN RateLimitError(IF error.limitHdr # "" THEN JStr(error.limitHdr)
                         ELSE JStr("unknown"),
                         resetDate)
  ELSE IF ~error.hasResponse
       THEN NetworkError(<<>>, error)
       ELSE [NetworkError(<<>>, error) EXCEPT !.status = error.status]

\* request(method, url, config) run against a remote that answers the k-th
\* attempt with script[k]: the attempts made, the delays waited, the time at
\* which it ends, and either the response returned or the error thrown
RECURSIVE requestFrom(_, _, _, _, _)
requestFrom(script, attempt, retryAttempts, delays, clock) ==
  LET a == script[attempt]
      error == AxiosError(a)
  IN IF a.ok
     THEN [ok |-> TRUE, response |-> a, error |-> BaseErr,
           calls |-> attempt, delays |-> delays, clock |-> clock]
     ELSE IF shouldRetry(error, attempt, retryAttempts) /\ attempt < retryAttempts
          THEN requestFrom(script, attempt + 1, retryAttempts,
                           Append(delays, AppRetryDelay * attempt),
                           clock + AppRetryDelay * attempt)
          ELSE [ok |-> FALSE, response |-> a,
                error |-> transformError(error, clock),
                calls |-> attempt, delays |-> delays, clock |-> clock]

request(script, retryAttempts, clock) ==
  requestFrom(script, 1, retryAttempts, <<>>, clock)

----------------------------------------------------------------------------
(* GitHubUserRepository (src/CREATE_ENV_PR.md) *)

UserTtlSeconds == 300

KeyPrefixUser == <<"g", "i", "t", "h", "u", "b", ":", "u", "s", "e", "r", ":">>
KeyPrefixRepos == <<"g", "i", "t", "h", "u", "b", ":", "r", "e", "p", "o", "s", ":">>

\* getUserCacheKey(username)
getUserCacheKey(username) == KeyPrefixUser \o toLowerCase(username)
\* getRepositoriesCacheKey(username)
getRepositoriesCacheKey(username) == KeyPrefixRepos \o toLowerCase(username)

\* the catch block of findByUsername / findUserRepositories
GatewayCatch(error, username) ==
  IF error.name = "NetworkError" THEN error
  ELSE IF error.hasResponse /\ error.status = 404 THEN UserNotFoundError(username)
  ELSE NetworkError(username, error)

\* findByUsername(username) against a remote answering by script: the user
\* returned or the error thrown, with what the transport did
findByUsername(username, script, clock) ==
  LET r == request(script, AppRetryAttempts, clock)
      built == User_fromGitHubAPI(r.response.data.obj)
      thrown == IF ~r.ok THEN r.error
                ELSE IF r.response.data.kind = "null" THEN UserNotFoundError(username)
                ELSE built.error
      ok == r.ok /\ r.response.data.kind # "null" /\ built.ok
  IN [ok |-> ok,
      user |-> IF ok THEN built.user ELSE EmptyObj,
      error |-> IF ok THEN BaseErr ELSE GatewayCatch(thrown, username),
      path |-> username,
      calls |-> r.calls, clock |-> r.clock,
      transportOk |-> r.ok,
      transportError |-> r.error,
      finalStatus |-> r.response.status]

\* cacheUser(username, user, ttl): the Map afterwards (this.cache is set);
\* a this.cache.set that throws is caught and logged
cacheUser(st, clock, username, user, ttl) ==
  LET key == getUserCacheKey(username)
      value == ObjBody(JsonObject(User_toJSON(user, clock)))
      cacheTTL == IF Truthy(ttl) THEN ttl ELSE JNum(UserTtlSeconds)
  IN IF "set" \in cacheLog.throws THEN st
     ELSE cache_set(st, clock, key, value, cacheTTL)

\* getCachedUser without its try/catch: a this.cache.get that throws is thrown on
getCachedUser_noCatch(st, clock, username) ==
  [hit |-> FALSE, user |-> EmptyObj, store |-> st, key |-> getUserCacheKey(username),
   threw |-> "get" \in cacheLog.throws]

\* getCachedUser(username): the user or null (hit = FALSE), the Map afterwards,
\* and whether the call threw; a this.cache.get or a constructor that throws
\* is caught and logged, and null is returned
getCachedUser(st, clock, username) ==
  LET key == getUserCacheKey(username)
      got == cache_get(st, clock, key)
      built == User_fromGitHubAPI(got.result.value.obj)
      miss == [hit |-> FALSE, user |-> EmptyObj, store |-> got.store, key |-> key,
               threw |-> FALSE]
  IN IF "get" \in cacheLog.throws THEN [miss EXCEPT !.store = st]
     ELSE IF ~got.result.hit THEN miss
     ELSE IF built.ok THEN [miss EXCEPT !.hit = TRUE, !.user = built.user]
     ELSE miss

RepositoriesTtlSeconds == 600

\* a cached text holding a processed owned-items result, parsed
DocBody(doc) == [kind |-> "document", obj |-> EmptyObj, items |-> <<>>, doc |-> doc]

\* the body of findUserRepositories once httpClient.get has settled as r
findUserRepositories_settled(username, params, r) ==
  LET common == [path |-> username, params |-> params, calls |-> r.calls,
                 clock |-> r.clock, transportOk |-> r.ok,
                 transportError |-> r.error, finalStatus |-> r.response.status,
                 ok |-> TRUE, repositories |-> <<>>, error |-> BaseErr]
      built == [i \in DOMAIN r.response.data.items |->
                  Repository_fromGitHubAPI(r.response.data.items[i])]
      failing == {i \in DOMAIN built : ~built[i].ok}
      first == CHOOSE i \in failing : \A j \in failing : i <= j
  IN IF ~r.ok
     THEN [common EXCEPT !.ok = FALSE, !.error = GatewayCatch(r.error, username)]
     ELSE IF r.response.data.kind # "array" THEN common
     ELSE IF failing # {}
          THEN [common EXCEPT !.ok = FALSE,
                              !.error = GatewayCatch(built[first].error, username)]
          ELSE [common EXCEPT !.repositories = [i \in DOMAIN built |-> built[i].repo]]

\* findUserRepositories(username, {page, perPage, sort, direction}) against a
\* remote answering by script: the entities returned or the error thrown
findUserRepositories(username, options, script, clock) ==
  findUserRepositories_settled(
    username,
    [page |-> IF options.page.t = "undefined" THEN JNum(1) ELSE options.page,
     per_page |-> IF options.perPage.t = "undefined" THEN JNum(30) ELSE options.perPage,
     sort |-> IF options.sort.t = "undefined" THEN JStr("updated") ELSE options.sort,
     direction |-> IF options.direction.t = "undefined" THEN JStr("desc")
                   ELSE options.direction],
    request(script, AppRetryAttempts, clock))

\* JSON.parse(JSON.stringify(item)) of an item of a result list: the toJSON()
\* of an instance, the object itself otherwise
JsonItem(item, clock) ==
  IF item.class = "Repository"
  THEN Plain(JsonObject(Repository_toJSON(item.props, clock)))
  ELSE Plain(JsonObject(item.props))
JsonItems(items, clock) == [i \in DOMAIN items |-> JsonItem(items[i], clock)]

\* JSON.parse(JSON.stringify(x)) of a record of plain values
JsonLeaves(rec) == [k \in DOMAIN rec |-> JsonValue(rec[k])]

\* JSON.parse(JSON.stringify(analytics))
JsonAnalytics(a) ==
  IF "overview" \notin DOMAIN a THEN JsonValue(a)
  ELSE [overview |-> JsonLeaves(a.overview),
        languages |-> [total |-> JsonValue(a.languages.total),
                       mostUsed |-> JsonValue(a.languages.mostUsed),
                       distribution |-> [i \in DOMAIN a.languages.distribution |->
                                           JsonLeaves(a.languages.distribution[i])],
                       diversity |-> JsonValue(a.languages.diversity)],
        activity |-> JsonLeaves(a.activity),
        popularity |-> [totalStars |-> JsonValue(a.popularity.totalStars),
                        totalForks |-> JsonValue(a.popularity.totalForks),
                        popularRepositories |->
                          JsonValue(a.popularity.popularRepositories),
                        averageStars |-> JsonValue(a.popularity.averageStars),
                        topRepositories |->
                          [i \in DOMAIN a.popularity.topRepositories |->
                             JsonLeaves(a.popularity.topRepositories[i])]],
        trends |-> JsonLeaves(a.trends)]

\* JSON.parse(JSON.stringify(result)) of a processed owned-items result
JsonResult(res, clock) ==
  [repositories |-> JsonItems(res.repositories, clock),
   totalCount |-> JsonValue(res.totalCount),
   filteredCount |-> JsonValue(res.filteredCount),
   analytics |-> JsonAnalytics(res.analytics),
   categorization |->
     [byType |-> [original |-> JsonItems(res.categorization.byType.original, clock),
                  forked |-> JsonItems(res.categorization.byType.forked, clock)],
      byActivity |->
        [active |-> JsonItems(res.categorization.byActivity.active, clock),
         inactive |-> JsonItems(res.categorization.byActivity.inactive, clock)],
      byPopularity |->
        [popular |-> JsonItems(res.categorization.byPopularity.popular, clock),
         standard |-> JsonItems(res.categorization.byPopularity.standard, clock)],
      byMaintenance |->
        [wellMaintained |->
           JsonItems(res.categorization.byMaintenance.wellMaintained, clock),
         needsAttention |->
           JsonItems(res.categorization.byMaintenance.needsAttention, clock)]],
   statistics |-> JsonLeaves(res.statistics),
   pagination |-> JsonObject(res.pagination)]

\* cacheUserRepositories(username, repositories, ttl): the Map afterwards
cacheUserRepositories(st, clock, username, repositories, ttl) ==
  LET key == getRepositoriesCacheKey(username)
      value == DocBody(JsonResult(repositories, clock))
      cacheTTL == IF Truthy(ttl) THEN ttl ELSE JNum(RepositoriesTtlSeconds)
  IN IF "set" \in cacheLog.throws THEN st
     ELSE cache_set(st, clock, key, value, cacheTTL)

\* getCachedUserRepositories(username): the parsed processed result (the store
\* holds under these keys only what cacheUserRepositories wrote for the use
\* case), or null (hit = FALSE), and the Map afterwards
getCachedUserRepositories(st, clock, username) ==
  LET key == getRepositoriesCacheKey(username)
      got == cache_get(st, clock, key)
  IN IF "get" \in cacheLog.throws
     THEN [hit |-> FALSE, doc |-> EmptyObj, store |-> st, key |-> key,
           threw |-> FALSE]
     ELSE IF got.result.hit /\ got.result.value.kind = "document"
     THEN [hit |-> TRUE, doc |-> got.result.value.doc, store |-> got.store,
           key |-> key, threw |-> FALSE]
     ELSE [hit |-> FALSE, doc |-> EmptyObj, store |-> got.store, key |-> key,
           threw |-> FALSE]

\* clearUserCache(username): the Map afterwards; a this.cache.del that throws
\* is caught and logged
clearUserCache(st, username) ==
  IF "del" \in cacheLog.throws THEN st
  ELSE cache_del(cache_del(st, getUserCacheKey(username)),
                 getRepositoriesCacheKey(username))

\* clearAllCache(): the Map afterwards; a this.cache.flush that throws is
\* caught and logged
clearAllCache(st) == IF "flush" \in cacheLog.throws THEN st ELSE cache_flush(st)

\* userExists that lets every failure other than a 404 through
userExists_rethrows(username, script, clock) ==
  LET r == request(script, AppRetryAttempts, clock)
  IN [threw |-> ~r.ok /\ ~(r.error.hasResponse /\ r.error.status = 404),
      value |-> r.ok, path |-> username, calls |-> r.calls, clock |-> r.clock,
      transportOk |-> r.ok, transportError |-> r.error,
      finalStatus |-> r.response.status]

\* userExists(username) against a remote answering by script: true when
\* httpClient.get resolves, false when it throws, whatever it throws; the
\* response body is not looked at
userExists(username, script, clock) ==
  LET r == request(script, AppRetryAttempts, clock)
  IN [threw |-> FALSE,
      value |-> r.ok, path |-> username, calls |-> r.calls, clock |-> r.clock,
      transportOk |-> r.ok, transportError |-> r.error,
      finalStatus |-> r.response.status]

----------------------------------------------------------------------------
(* GetUserUseCase (src/src/main.js) *)

MaxUsernameLength == 39

\* githubUsernameRegex.test(s): /^[a-zA-Z0-9]([a-zA-Z0-9-]){0,38}$/
githubUsernameRegex(cs) ==
  /\ Len(cs) >= 1
  /\ Len(cs) <= MaxUsernameLength
  /\ IsAlnum(cs[1])
  /\ \A i \in 2..Len(cs) : IsAlnum(cs[i]) \/ cs[i] = "-"

\* validateInput(username): TRUE when it returns, FALSE when it throws
\* ValidationError
validateInput(username) ==
  /\ ~ArgFalsy(username)
  /\ username.type = "string"
  /\ Len(trim(username.chars)) # 0
  /\ githubUsernameRegex(trim(username.chars))

\* normalizeUsername with the case left as typed
normalizeUsername_keepCase(cs) == trim(cs)

\* normalizeUsername(username)
normalizeUsername(cs) == toLowerCase(trim(cs))

\* handleError wrapping whatever it is given
handleError_wrapAll(error, username) == NetworkError(username.chars, error)

\* handleError(error, username)
handleError(error, username) ==
  IF error.name = "UserNotFoundError" THEN error
  ELSE IF error.name = "ValidationError" THEN error
  ELSE NetworkError(username.chars, error)

\* Math.round(a / b) for a >= 0 and b > 0
Round(a, b) == (2 * a + b) \div (2 * b)

RECURSIVE SumSeq(_)
SumSeq(ns) == IF ns = <<>> THEN 0 ELSE Head(ns) + SumSeq(Tail(ns))

\* generateProfileSuggestions(user)
generateProfileSuggestions(u) ==
  (IF ~Truthy(u.name) THEN <<"Adicione seu nome completo">> ELSE <<>>)
  \o (IF ~Truthy(u.bio) THEN <<"Escreva uma bio descrevendo suas atividades">>
      ELSE <<>>)
  \o (IF ~Truthy(u.location) THEN <<"Adicione sua localização">> ELSE <<>>)
  \o (IF ~Truthy(u.company) THEN <<"Mencione sua empresa ou organização">> ELSE <<>>)
  \o (IF ~Truthy(u.blog) THEN <<"Adicione um link para seu website ou blog">>
      ELSE <<>>)
  \o (IF ~Truthy(u.email) THEN <<"Torne seu email público se desejar">> ELSE <<>>)

\* the fields array of calculateProfileCompleteness: name, property, weight
ProfileFields ==
  <<[name |-> "name", prop |-> "name", weight |-> 20],
    [name |-> "bio", prop |-> "bio", weight |-> 15],
    [name |-> "location", prop |-> "location", weight |-> 10],
    [name |-> "company", prop |-> "company", weight |-> 10],
    [name |-> "blog", prop |-> "blog", weight |-> 10],
    [name |-> "email", prop |-> "email", weight |-> 15],
    [name |-> "twitter", prop |-> "twitterUsername", weight |-> 10]>>

\* calculateProfileCompleteness(user)
calculateProfileCompleteness(u) ==
  LET completedFields == SelectSeq(ProfileFields, LAMBDA f : Truthy(u[f.prop]))
      missing == SelectSeq(ProfileFields, LAMBDA f : ~Truthy(u[f.prop]))
      weights(fs) == [i \in DOMAIN fs |-> fs[i].weight]
  IN [percentage |-> JNum(Round(SumSeq(weights(completedFields)) * 100,
                                SumSeq(weights(ProfileFields)))),
      completedFields |-> [i \in DOMAIN completedFields |-> completedFields[i].name],
      missingFields |-> [i \in DOMAIN missing |-> missing[i].name],
      suggestions |-> generateProfileSuggestions(u)]

\* generateUserMetadata(user) (formattedStats is not modelled)
generateUserMetadata(u, clock) ==
  [hasCompleteProfile |-> hasCompleteProfile(u),
   engagementScore |-> engagementScore(u),
   isActiveUser |-> isActiveUser(u, clock),
   profileCompleteness |-> calculateProfileCompleteness(u)]

\* what is recorded of one execution of a use case; before anything is done
\* there is no user, no metadata and no owned-items result
NoExec ==
  [seq |-> 0, op |-> "none", input |-> UndefArg, options |-> EmptyObj,
   result |-> [repositories |-> <<>>, totalCount |-> JUndef,
               filteredCount |-> JUndef, analytics |-> JUndef,
               categorization |-> EmptyObj, statistics |-> EmptyObj,
               pagination |-> EmptyObj],
   params |-> EmptyObj, useCache |-> FALSE,
   forceRefresh |-> FALSE, outcome |-> "none", fromCache |-> FALSE,
   user |-> EmptyObj,
   metadata |-> [hasCompleteProfile |-> FALSE, engagementScore |-> 0,
                 isActiveUser |-> FALSE],
   error |-> BaseErr,
   repositoryCalls |-> 0, cacheReads |-> 0, cacheWrites |-> 0,
   httpRequests |-> 0, attempts |-> 0, path |-> <<>>, cacheKey |-> <<>>,
   gatewayError |-> BaseErr, transportOk |-> TRUE, transportError |-> BaseErr,
   finalStatus |-> 0, firstTry |-> FALSE, startedAt |-> 0, endedAt |-> 0,
   cacheThrew |-> FALSE, exists |-> FALSE, listing |-> <<>>, payload |-> <<>>,
   store |-> EmptyStore]

\* a lookup condition that would not look at forceRefresh
UserLookup_ignoreForce(useCache, forceRefresh) == Truthy(useCache)

\* the cache lookup of execute is made when useCache && !forceRefresh
UserLookup(useCache, forceRefresh) == Truthy(useCache) /\ ~Truthy(forceRefresh)

\* execute that drops the user's entry when the remote fetch fails
execute_fetch_dropOnFailure(afterLookup, useCache, username, normalizedUsername, f) ==
  LET fetched ==
        [afterLookup EXCEPT !.repositoryCalls = @ + 1,
                            !.httpRequests = 1,
                            !.attempts = f.calls,
                            !.path = f.path,
                            !.transportOk = f.transportOk,
                            !.transportError = f.transportError,
                            !.finalStatus = f.finalStatus,
                            !.firstTry = f.transportOk /\ f.calls = 1,
                            !.endedAt = f.clock]
  IN IF ~f.ok
     THEN [fetched EXCEPT !.outcome = "threw",
                          !.gatewayError = f.error,
                          !.error = handleError(f.error, username),
                          !.store = cache_del(afterLookup.store,
                                              getUserCacheKey(normalizedUsername))]
     ELSE [fetched EXCEPT
             !.outcome = "returned",
             !.user = f.user,
             !.metadata = generateUserMetadata(f.user, f.clock),
             !.repositoryCalls = IF Truthy(useCache) THEN @ + 1 ELSE @,
             !.cacheWrites = IF Truthy(useCache) THEN 1 ELSE 0,
             !.cacheKey = IF Truthy(useCache)
                          THEN getUserCacheKey(normalizedUsername)
                          ELSE @,
             !.store = IF Truthy(useCache)
                       THEN cacheUser(afterLookup.store, f.clock, normalizedUsername,
                                      f.user, JNum(UserTtlSeconds))
                       ELSE afterLookup.store]

\* the rest of execute once the lookup missed or was skipped: f is what
\* fetchUserFromRepository gave; the user is cached when useCache, and the
\* result is built or the error handled
execute_fetch(afterLookup, useCache, username, normalizedUsername, f) ==
  LET fetched ==
        [afterLookup EXCEPT !.repositoryCalls = @ + 1,
                            !.httpRequests = 1,
                            !.attempts = f.calls,
                            !.path = f.path,
                            !.transportOk = f.transportOk,
                            !.transportError = f.transportError,
                            !.finalStatus = f.finalStatus,
                            !.firstTry = f.transportOk /\ f.calls = 1,
                            !.endedAt = f.clock]
  IN IF ~f.ok
     THEN [fetched EXCEPT !.outcome = "threw",
                          !.gatewayError = f.error,
                          !.error = handleError(f.error, username)]
     ELSE [fetched EXCEPT
             !.outcome = "returned",
             !.user = f.user,
             !.metadata = generateUserMetadata(f.user, f.clock),
             !.repositoryCalls = IF Truthy(useCache) THEN @ + 1 ELSE @,
             !.cacheWrites = IF Truthy(useCache) THEN 1 ELSE 0,
             !.cacheKey = IF Truthy(useCache)
                          THEN getUserCacheKey(normalizedUsername)
                          ELSE @,
             !.store = IF Truthy(useCache)
                       THEN cacheUser(afterLookup.store, f.clock, normalizedUsername,
                                      f.user, JNum(UserTtlSeconds))
                       ELSE afterLookup.store]

\* execute(username, options) run on the cache st at time clock, the remote
\* answering by script: what it returns or throws, the Map and the clock
\* afterwards, and the calls it made
GetUserUseCase_execute(st, clock, username, options, script) ==
  LET useCache == IF options.useCache.t = "undefined" THEN JBool(TRUE)
                  ELSE options.useCache
      forceRefresh == IF options.forceRefresh.t = "undefined" THEN JBool(FALSE)
                      ELSE options.forceRefresh
      base == [NoExec EXCEPT !.op = "user", !.input = username,
                             !.useCache = Truthy(useCache),
                             !.forceRefresh = Truthy(forceRefresh),
                             !.startedAt = clock, !.endedAt = clock,
                             !.store = st]
  IN IF ~validateInput(username)
     THEN [base EXCEPT !.outcome = "threw",
                       !.error = handleError(ValidationError("username"), username)]
     ELSE
       LET normalizedUsername == normalizeUsername(username.chars)
           lookup == UserLookup(useCache, forceRefresh)
           cached == getCachedUser(st, clock, normalizedUsername)
           st1 == IF lookup THEN cached.store ELSE st
           afterLookup ==
             [base EXCEPT !.cacheReads = IF lookup THEN 1 ELSE 0,
                          !.repositoryCalls = IF lookup THEN 1 ELSE 0,
                          !.cacheKey = IF lookup THEN cached.key ELSE <<>>,
                          !.cacheThrew = lookup /\ cached.threw,
                          !.store = st1]
       \* this.getCachedUser catches what the repository throws and gives null
       IN IF lookup /\ cached.hit /\ ~cached.threw
          THEN [afterLookup EXCEPT !.outcome = "returned", !.fromCache = TRUE,
                                   !.user = cached.user]
          ELSE execute_fetch(afterLookup, useCache, username, normalizedUsername,
                             findByUsername(normalizedUsername, script, clock))

----------------------------------------------------------------------------
(* GetUserRepositoriesUseCase (src/unnamed/part_001) *)

MinPerPage == 1
MaxPerPage == 100
TopLanguages == 10
TopRepositories == 5

\* this.defaultOptions
defaultOptions ==
  [page |-> JNum(1), perPage |-> JNum(30), sort |-> JStr("updated"),
   direction |-> JStr("desc"), useCache |-> JBool(TRUE),
   forceRefresh |-> JBool(FALSE), includeAnalytics |-> JBool(TRUE)]

\* { ...a, ...b }
Spread(a, b) ==
  [k \in DOMAIN a \cup DOMAIN b |-> IF k \in DOMAIN b THEN b[k] ELSE a[k]]

\* Number.isInteger(v), the numbers of the model being integers or NaN
IsInteger(v) == v.t = "number" /\ v.s # "NaN"

validSortOptions == {"created", "updated", "pushed", "full_name"}
validDirections == {"asc", "desc"}

\* validateInput(username, options): the field of the ValidationError it
\* throws, "" when it returns
Repos_validateInput(username, options) ==
  IF ArgFalsy(username) \/ username.type # "string" \/ Len(trim(username.chars)) = 0
  THEN "username"
  ELSE IF Truthy(Prop(options, "page"))
          /\ (~IsInteger(options.page) \/ options.page.n < 1)
  THEN "page"
  ELSE IF Truthy(Prop(options, "perPage"))
          /\ (\/ ~IsInteger(options.perPage)
              \/ options.perPage.n < MinPerPage
              \/ options.perPage.n > MaxPerPage)
  THEN "perPage"
  ELSE IF Truthy(Prop(options, "sort"))
          /\ ~(options.sort.t = "string" /\ options.sort.s \in validSortOptions)
  THEN "sort"
  ELSE IF Truthy(Prop(options, "direction"))
          /\ ~(options.direction.t = "string"
               /\ options.direction.s \in validDirections)
  THEN "direction"
  ELSE ""

\* the option and language strings of the inputs, spelled out
Spell(x) ==
  CASE x = "updated" -> <<"u", "p", "d", "a", "t", "e", "d">>
    [] x = "created" -> <<"c", "r", "e", "a", "t", "e", "d">>
    [] x = "pushed" -> <<"p", "u", "s", "h", "e", "d">>
    [] x = "full_name" -> <<"f", "u", "l", "l", "_", "n", "a", "m", "e">>
    [] x = "asc" -> <<"a", "s", "c">>
    [] x = "desc" -> <<"d", "e", "s", "c">>
    [] x = "all" -> <<"a", "l", "l">>
    [] x = "fork" -> <<"f", "o", "r", "k">>
    [] x = "source" -> <<"s", "o", "u", "r", "c", "e">>
    [] x = "Go" -> <<"G", "o">>
    [] x = "GO" -> <<"G", "O">>
    [] x = "Fork" -> <<"F", "o", "r", "k">>
    [] x = "Rust" -> <<"R", "u", "s", "t">>
    [] x = "go" -> <<"g", "o">>
    [] x = "JavaScript" -> <<"J", "a", "v", "a", "S", "c", "r", "i", "p", "t">>
    [] x = "javascript" -> <<"j", "a", "v", "a", "s", "c", "r", "i", "p", "t">>
    [] x = "" -> <<>>
    [] OTHER -> <<x>>

\* String(n) of a non-negative integer
RECURSIVE NumChars(_)
NumChars(k) ==
  IF k < 10 THEN <<CHOOSE c \in Digits : DigitVal(c) = k>>
  ELSE NumChars(k \div 10) \o NumChars(k % 10)

\* what Array.prototype.join makes of one element: '' for undefined and null
JoinText(v) ==
  CASE v.t \in {"undefined", "null"} -> <<>>
    [] v.t = "number" -> (IF v.s = "NaN" THEN <<"N", "a", "N">>
                          ELSE IF v.n < 0 THEN <<"-">> \o NumChars(0 - v.n)
                          ELSE NumChars(v.n))
    [] v.t = "boolean" -> (IF v.n = 1 THEN <<"t", "r", "u", "e">>
                           ELSE <<"f", "a", "l", "s", "e">>)
    [] OTHER -> Spell(v.s)

\* generateCacheKey(username, options)
generateCacheKey(username, options) ==
  username \o <<"_">> \o JoinText(Prop(options, "page"))
    \o <<"_">> \o JoinText(Prop(options, "perPage"))
    \o <<"_">> \o JoinText(Prop(options, "sort"))
    \o <<"_">> \o JoinText(Prop(options, "direction"))
    \o <<"_">> \o JoinText(IF Truthy(Prop(options, "language")) THEN options.language
                         ELSE JStr("all"))
    \o <<"_">> \o JoinText(IF Truthy(Prop(options, "type")) THEN options.type
                         ELSE JStr("all"))

\* String.prototype.toLowerCase on a language or option string
LowerOf(x) ==
  CASE x = "JavaScript" -> "javascript"
    [] x \in {"Go", "GO"} -> "go"
    [] x = "Rust" -> "rust"
    [] x = "Fork" -> "fork"
    [] OTHER -> x

\* the place of a name or language string in localeCompare order
Collation == <<"alpha", "beta", "gamma", "go", "Go", "javascript", "JavaScript">>
CollationRank(x) ==
  IF x \in Range(Collation) THEN CHOOSE i \in DOMAIN Collation : Collation[i] = x
  ELSE Len(Collation) + 1

\* array.sort(compare) for a comparison by keys: stable, larger keys first
SortDescBy(xs, keys) ==
  LET before(i) == {j \in DOMAIN xs : keys[j] > keys[i] \/ (keys[j] = keys[i] /\ j < i)}
  IN [p \in DOMAIN xs |-> xs[CHOOSE i \in DOMAIN xs : Cardinality(before(i)) = p - 1]]

\* array.slice(0, k)
Slice(xs, k) == SubSeq(xs, 1, IF Len(xs) < k THEN Len(xs) ELSE k)

\* applyFilters(repositories, options)
applyFilters(repositories, options, clock) ==
  LET byLanguage ==
        IF Truthy(Prop(options, "language"))
        THEN SelectSeq(repositories,
                       LAMBDA r : Truthy(r.language)
                                  /\ LowerOf(r.language.s) = LowerOf(options.language.s))
        ELSE repositories
      byType ==
        IF Prop(options, "type") = JStr("fork")
        THEN SelectSeq(byLanguage, LAMBDA r : r.isFork.n = 1)
        ELSE IF Prop(options, "type") = JStr("source")
             THEN SelectSeq(byLanguage, LAMBDA r : r.isFork.n = 0)
             ELSE byLanguage
      byStars ==
        IF Truthy(Prop(options, "minStars"))
        THEN SelectSeq(byType, LAMBDA r : r.stargazersCount.n >= options.minStars.n)
        ELSE byType
  IN IF Truthy(Prop(options, "activeOnly"))
     THEN SelectSeq(byStars, LAMBDA r : isActiveRepository(r, clock))
     ELSE byStars

\* applySorting(repositories, options)
applySorting(repositories, options) ==
  LET customSort == Prop(options, "customSort")
      key(name) == [i \in DOMAIN repositories |-> repositories[i][name].n]
  IN IF ~Truthy(customSort) THEN repositories
     ELSE CASE customSort = JStr("popularity") ->
                 SortDescBy(repositories,
                            [i \in DOMAIN repositories |->
                               popularityScore(repositories[i])])
            [] customSort = JStr("stars") ->
                 SortDescBy(repositories, key("stargazersCount"))
            [] customSort = JStr("forks") -> SortDescBy(repositories, key("forksCount"))
            [] customSort = JStr("size") -> SortDescBy(repositories, key("size"))
            [] customSort = JStr("name") ->
                 SortDescBy(repositories,
                            [i \in DOMAIN repositories |->
                               0 - CollationRank(repositories[i].name.s)])
            [] customSort = JStr("language") ->
                 SortDescBy(repositories,
                            [i \in DOMAIN repositories |->
                               IF Truthy(repositories[i].language)
                               THEN 0 - CollationRank(repositories[i].language.s)
                               ELSE 0 - (Len(Collation) + 2)])
            [] OTHER -> repositories

\* the number of items of xs that pass the test
Count(xs, Test(_)) == Len(SelectSeq(xs, Test))

\* the distinct languages of the repositories, in order of first appearance
\* (the key order of languageCount)
RECURSIVE LanguagesOf(_)
LanguagesOf(repositories) ==
  IF repositories = <<>> THEN <<>>
  ELSE LET front == LanguagesOf(SubSeq(repositories, 1, Len(repositories) - 1))
           last == repositories[Len(repositories)].language
       IN IF Truthy(last) /\ last.s \notin Range(front) THEN Append(front, last.s)
          ELSE front

Stars(repositories) ==
  [i \in DOMAIN repositories |-> repositories[i].stargazersCount.n]

\* analyzeLanguages(repositories), for a non-empty list
analyzeLanguages(repositories) ==
  LET names == LanguagesOf(repositories)
      ofLanguage(x) ==
        SelectSeq(repositories, LAMBDA r : r.language = JStr(x))
      entries ==
        [i \in DOMAIN names |->
           [language |-> JStr(names[i]),
            repositories |-> JNum(Len(ofLanguage(names[i]))),
            totalStars |-> JNum(SumSeq(Stars(ofLanguage(names[i])))),
            percentage |-> JNum(Round(Len(ofLanguage(names[i])) * 100,
                                      Len(repositories)))]]
      languages ==
        SortDescBy(entries, [i \in DOMAIN entries |-> entries[i].repositories.n])
  IN [total |-> JNum(Len(names)),
      mostUsed |-> IF languages = <<>> THEN JNull ELSE OrNull(languages[1].language),
      distribution |-> Slice(languages, TopLanguages),
      diversity |-> JNum(Round(Len(names) * 100, Len(repositories)))]

\* calculateAverageAge(repositories)
calculateAverageAge(repositories, clock) ==
  LET ages == SelectSeq([i \in DOMAIN repositories |-> ageInDays(repositories[i], clock)],
                        LAMBDA age : age.t # "null")
  IN IF Len(ages) > 0
     THEN JNum(Round(SumSeq([i \in DOMAIN ages |-> ages[i].n]), Len(ages)))
     ELSE JNum(0)

\* analyzeActivity(repositories), for a non-empty list
analyzeActivity(repositories, clock) ==
  [activeRepositories |->
     JNum(Count(repositories, LAMBDA r : isActiveRepository(r, clock))),
   inactiveRepositories |->
     JNum(Count(repositories, LAMBDA r : ~isActiveRepository(r, clock))),
   newRepositories |-> JNum(Count(repositories, LAMBDA r : isNewRepository(r, clock))),
   activityPercentage |->
     JNum(Round(Count(repositories, LAMBDA r : isActiveRepository(r, clock)) * 100,
                Len(repositories))),
   averageAge |-> calculateAverageAge(repositories, clock)]

\* analyzePopularity(repositories), for a non-empty list
analyzePopularity(repositories) ==
  LET starred == SelectSeq(repositories, LAMBDA r : r.stargazersCount.n > 0)
      topRepos == Slice(SortDescBy(starred, Stars(starred)), TopRepositories)
  IN [totalStars |-> JNum(SumSeq(Stars(repositories))),
      totalForks |->
        JNum(SumSeq([i \in DOMAIN repositories |-> repositories[i].forksCount.n])),
      popularRepositories |-> JNum(Count(repositories, isPopular)),
      averageStars |-> JNum(Round(SumSeq(Stars(repositories)), Len(repositories))),
      topRepositories |->
        [i \in DOMAIN topRepos |->
           [name |-> topRepos[i].name, stars |-> topRepos[i].stargazersCount,
            forks |-> topRepos[i].forksCount, language |-> topRepos[i].language]]]

\* calculateMomentum(repositories): 0 for an empty list; else the number
\* Math.round(active / total * 50 + Math.log(stars / total + 1) * 10), kept as
\* the three integers it is computed from
calculateMomentum(repositories, clock) ==
  IF repositories = <<>> THEN JNum(0)
  ELSE [t |-> "number", s |-> "momentum", n |-> 0,
        active |-> Count(repositories, LAMBDA r : isActiveRepository(r, clock)),
        total |-> Len(repositories),
        stars |-> SumSeq(Stars(repositories))]

\* analyzeTrends(repositories)
analyzeTrends(repositories, clock) ==
  [recentActivity |->
     JNum(Count(repositories, LAMBDA r : isActiveRepository(r, clock))),
   growth |-> JNum(Count(repositories, LAMBDA r : isNewRepository(r, clock))),
   momentum |-> calculateMomentum(repositories, clock)]

\* the object generateAnalytics returns for a non-empty list
generateAnalytics_populated(repositories, clock) ==
  [overview |->
     [totalRepositories |-> JNum(Len(repositories)),
      publicRepositories |->
        JNum(Count(repositories, LAMBDA r : r.isPrivate.n = 0)),
      forkedRepositories |-> JNum(Count(repositories, LAMBDA r : r.isFork.n = 1)),
      originalRepositories |->
        JNum(Count(repositories, LAMBDA r : r.isFork.n = 0))],
   languages |-> analyzeLanguages(repositories),
   activity |-> analyzeActivity(repositories, clock),
   popularity |-> analyzePopularity(repositories),
   trends |-> analyzeTrends(repositories, clock)]

\* generateAnalytics without its early return: zeros for an empty list
generateAnalytics_zeroFilled(repositories, clock) ==
  IF Len(repositories) = 0
  THEN [overview |->
          [totalRepositories |-> JNum(0), publicRepositories |-> JNum(0),
           forkedRepositories |-> JNum(0), originalRepositories |-> JNum(0)],
        languages |-> [total |-> JNum(0), mostUsed |-> JNull, distribution |-> <<>>,
                       diversity |-> JNaN],
        activity |-> [activeRepositories |-> JNum(0), inactiveRepositories |-> JNum(0),
                      newRepositories |-> JNum(0), activityPercentage |-> JNaN,
                      averageAge |-> JNum(0)],
        popularity |-> [totalStars |-> JNum(0), totalForks |-> JNum(0),
                        popularRepositories |-> JNum(0), averageStars |-> JNaN,
                        topRepositories |-> <<>>],
        trends |-> analyzeTrends(repositories, clock)]
  ELSE generateAnalytics_populated(repositories, clock)

\* generateAnalytics(repositories)
generateAnalytics(repositories, clock) ==
  IF Len(repositories) = 0 THEN JNull
  ELSE generateAnalytics_populated(repositories, clock)

Instances(repositories) == [i \in DOMAIN repositories |-> Instance(repositories[i])]

\* categorizeRepositories(repositories)
categorizeRepositories(repositories, clock) ==
  [byType |->
     [original |-> Instances(SelectSeq(repositories, LAMBDA r : r.isFork.n = 0)),
      forked |-> Instances(SelectSeq(repositories, LAMBDA r : r.isFork.n = 1))],
   byActivity |->
     [active |->
        Instances(SelectSeq(repositories, LAMBDA r : isActiveRepository(r, clock))),
      inactive |->
        Instances(SelectSeq(repositories, LAMBDA r : ~isActiveRepository(r, clock)))],
   byPopularity |->
     [popular |-> Instances(SelectSeq(repositories, isPopular)),
      standard |-> Instances(SelectSeq(repositories, LAMBDA r : ~isPopular(r)))],
   byMaintenance |->
     [wellMaintained |->
        Instances(SelectSeq(repositories, LAMBDA r : isWellMaintained(r, clock))),
      needsAttention |->
        Instances(SelectSeq(repositories, LAMBDA r : ~isWellMaintained(r, clock)))]]

\* generateStatistics(repositories): averageSize is Math.round(0 / 0) = NaN for
\* an empty list
generateStatistics(repositories) ==
  [total |-> JNum(Len(repositories)),
   totalStars |-> JNum(SumSeq(Stars(repositories))),
   totalForks |->
     JNum(SumSeq([i \in DOMAIN repositories |-> repositories[i].forksCount.n])),
   totalWatchers |->
     JNum(SumSeq([i \in DOMAIN repositories |-> repositories[i].watchersCount.n])),
   averageSize |->
     IF repositories = <<>> THEN JNaN
     ELSE JNum(Round(SumSeq([i \in DOMAIN repositories |-> repositories[i].size.n]),
                     Len(repositories))),
   languageCount |-> JNum(Len(LanguagesOf(repositories)))]

\* the result object of processRepositories, its lists filtered and sorted
processRepositories_result(repositories, options, clock, filtered, sorted) ==
  [repositories |-> Instances(sorted),
   totalCount |-> JNum(Len(repositories)),
   filteredCount |-> JNum(Len(filtered)),
   analytics |-> IF Truthy(Prop(options, "includeAnalytics"))
                 THEN generateAnalytics(repositories, clock)
                 ELSE JNull,
   categorization |-> categorizeRepositories(repositories, clock),
   statistics |-> generateStatistics(repositories),
   pagination |-> [page |-> Prop(options, "page"), perPage |-> Prop(options, "perPage"),
                   hasMore |-> JBool(JNum(Len(sorted)) = Prop(options, "perPage"))]]

\* processRepositories analysing, categorizing and counting the filtered list
processRepositories_analyseFiltered(repositories, options, clock) ==
  processRepositories_result(
    applyFilters(repositories, options, clock), options, clock,
    applyFilters(repositories, options, clock),
    applySorting(applyFilters(repositories, options, clock), options))

\* processRepositories(repositories, options)
processRepositories(repositories, options, clock) ==
  processRepositories_result(
    repositories, options, clock,
    applyFilters(repositories, options, clock),
    applySorting(applyFilters(repositories, options, clock), options))

\* handleError(error, username)
Repos_handleError(error, username) ==
  IF error.name = "UserNotFoundError" THEN error
  ELSE IF error.name = "ValidationError" THEN error
  ELSE NetworkError(username.chars, error)

\* normalizeUsername(username)
Repos_normalizeUsername(cs) == toLowerCase(trim(cs))

\* the rest of execute caching the result whatever useCache says
Repos_execute_processed_alwaysCache(fetched, config, normalizedUsername, clock, result) ==
  [fetched EXCEPT
     !.outcome = "returned",
     !.result = result,
     !.repositoryCalls = @ + 1,
     !.cacheWrites = 1,
     !.cacheKey = getRepositoriesCacheKey(generateCacheKey(normalizedUsername, config)),
     !.store = cacheUserRepositories(
                 fetched.store, clock, generateCacheKey(normalizedUsername, config),
                 result, JNum(RepositoriesTtlSeconds))]

\* the rest of execute once processRepositories has given result: the result
\* is cached when useCache, and returned
Repos_execute_processed(fetched, config, normalizedUsername, clock, result) ==
  [fetched EXCEPT
     !.outcome = "returned",
     !.result = result,
     !.repositoryCalls = IF Truthy(config.useCache) THEN @ + 1 ELSE @,
     !.cacheWrites = IF Truthy(config.useCache) THEN 1 ELSE 0,
     !.cacheKey = IF Truthy(config.useCache)
                  THEN getRepositoriesCacheKey(
                         generateCacheKey(normalizedUsername, config))
                  ELSE @,
     !.store = IF Truthy(config.useCache)
               THEN cacheUserRepositories(
                      fetched.store, clock,
                      generateCacheKey(normalizedUsername, config), result,
                      JNum(RepositoriesTtlSeconds))
               ELSE fetched.store]

\* the rest of execute once the lookup missed or was skipped: f is what
\* fetchRepositoriesFromRepository gave
Repos_execute_fetch(afterLookup, config, username, normalizedUsername, f) ==
  LET fetched ==
        [afterLookup EXCEPT !.repositoryCalls = @ + 1,
                            !.httpRequests = 1,
                            !.attempts = f.calls,
                            !.path = f.path,
                            !.params = f.params,
                            !.transportOk = f.transportOk,
                            !.transportError = f.transportError,
                            !.finalStatus = f.finalStatus,
                            !.firstTry = f.transportOk /\ f.calls = 1,
                            !.endedAt = f.clock]
  IN IF ~f.ok
     THEN [fetched EXCEPT !.outcome = "threw",
                          !.gatewayError = f.error,
                          !.error = Repos_handleError(f.error, username)]
     ELSE Repos_execute_processed(
            [fetched EXCEPT !.listing = f.repositories], config,
            normalizedUsername, f.clock,
            processRepositories(f.repositories, config, f.clock))

\* the rest of execute once getCachedRepositories has given cached
Repos_execute_looked(base, config, username, normalizedUsername, script, cached) ==
  LET afterLookup ==
        [base EXCEPT !.cacheReads = 1, !.repositoryCalls = 1,
                     !.cacheKey = cached.key, !.cacheThrew = cached.threw,
                     !.store = cached.store]
  \* this.getCachedRepositories catches what the repository throws and gives null
  IN IF cached.hit /\ ~cached.threw
     THEN [afterLookup EXCEPT !.outcome = "returned", !.fromCache = TRUE,
                              !.result = cached.doc]
     ELSE Repos_execute_fetch(
            afterLookup, config, username, normalizedUsername,
            findUserRepositories(normalizedUsername, config, script, base.startedAt))

\* execute(username, options) run on the cache st at time clock, the remote
\* answering by script: what it returns or throws, the Map and the clock
\* afterwards, and the calls it made
GetUserRepositoriesUseCase_execute(st, clock, username, options, script) ==
  LET config == Spread(defaultOptions, options)
      base == [NoExec EXCEPT !.op = "repos", !.input = username,
                             !.options = options,
                             !.useCache = Truthy(config.useCache),
                             !.forceRefresh = Truthy(config.forceRefresh),
                             !.startedAt = clock, !.endedAt = clock,
                             !.store = st]
      invalid == Repos_validateInput(username, config)
  IN IF invalid # ""
     THEN [base EXCEPT !.outcome = "threw",
                       !.error = Repos_handleError(ValidationError(invalid), username)]
     ELSE IF Truthy(config.useCache) /\ ~Truthy(config.forceRefresh)
          THEN Repos_execute_looked(
                 base, config, username, Repos_normalizeUsername(username.chars),
                 script,
                 getCachedUserRepositories(
                   st, clock,
                   generateCacheKey(Repos_normalizeUsername(username.chars), config)))
          ELSE Repos_execute_fetch(
                 base, config, username, Repos_normalizeUsername(username.chars),
                 findUserRepositories(Repos_normalizeUsername(username.chars), config,
                                      script, clock))

\* GetUserUseCase.userExists returning false for whatever its try block throws
GetUserUseCase_userExists_swallowAll(st, clock, username, script) ==
  LET base == [NoExec EXCEPT !.op = "useCaseUserExists", !.input = username,
                             !.startedAt = clock, !.endedAt = clock, !.store = st]
      r == userExists(normalizeUsername(username.chars), script, clock)
  IN IF ~validateInput(username)
     THEN [base EXCEPT !.outcome = "returned", !.exists = FALSE]
     ELSE [base EXCEPT !.outcome = "returned", !.exists = ~r.threw /\ r.value,
                       !.repositoryCalls = 1, !.httpRequests = 1,
                       !.attempts = r.calls, !.path = r.path,
                       !.transportOk = r.transportOk,
                       !.transportError = r.transportError,
                       !.finalStatus = r.finalStatus, !.endedAt = r.clock]

\* GetUserUseCase.userExists(username) at time clock, the remote answering by
\* script: a ValidationError of validateInput is thrown on, anything else the
\* try block throws gives false
GetUserUseCase_userExists(st, clock, username, script) ==
  LET base == [NoExec EXCEPT !.op = "useCaseUserExists", !.input = username,
                             !.startedAt = clock, !.endedAt = clock, !.store = st]
      r == userExists(normalizeUsername(username.chars), script, clock)
  IN IF ~validateInput(username)
     THEN [base EXCEPT !.outcome = "threw", !.error = ValidationError("username")]
     ELSE [base EXCEPT !.outcome = "returned", !.exists = ~r.threw /\ r.value,
                       !.repositoryCalls = 1, !.httpRequests = 1,
                       !.attempts = r.calls, !.path = r.path,
                       !.transportOk = r.transportOk,
                       !.transportError = r.transportError,
                       !.finalStatus = r.finalStatus, !.endedAt = r.clock]

----------------------------------------------------------------------------
(* useUser hook (src/unnamed/part_004) *)

\* the two kinds of fetch: fetchUser and fetchUserRepositories are the same
\* code on two sets of state
Kinds == {"user", "repositories"}

\* a ref that holds null
NoRequest == [obj |-> 0, id |-> 0]

\* the hook after its first render. view[kind] is the React state of a kind:
\* data is user / repositories, meta is userMetadata / analytics and
\* repositoriesStats, error is userError / repositoriesError; a value is named
\* by the number of the call whose outcome it is (0 is null, or [] for
\* repositories). current[kind] is currentUserRequest.current /
\* currentRepositoriesRequest.current: the object made by call obj, with its
\* id; cancelled holds the objects whose cancelled flag is set. calls and
\* profiles record the calls made, in the order they were issued.
NoHook ==
  [view |-> [k \in Kinds |-> [data |-> 0, meta |-> 0, fromCache |-> FALSE,
                              error |-> 0, isLoading |-> FALSE]],
   current |-> [k \in Kinds |-> NoRequest],
   cancelled |-> {},
   calls |-> <<>>,
   profiles |-> <<>>]

\* fetchUser / fetchUserRepositories up to its await: the previous request
\* object is flagged, a new one is made with id Date.now(), and the use case
\* is called; a call of the same kind still pending is from now on superseded
fetch(h, kind, clock) ==
  LET cur == h.current[kind]
      n == Len(h.calls) + 1
      older == [i \in DOMAIN h.calls |->
                  IF h.calls[i].kind = kind /\ h.calls[i].status = "pending"
                  THEN [h.calls[i] EXCEPT !.superseded = TRUE]
                  ELSE h.calls[i]]
  IN [h EXCEPT
        !.cancelled = IF cur.obj # 0 THEN @ \cup {cur.obj} ELSE @,
        !.current[kind] = [obj |-> n, id |-> clock],
        !.view[kind].isLoading = TRUE,
        !.view[kind].error = 0,
        !.calls = Append(older, [kind |-> kind, id |-> clock, status |-> "pending",
                                 ok |-> FALSE, fromCache |-> FALSE,
                                 wrote |-> FALSE, superseded |-> FALSE,
                                 cleared |-> FALSE])]

\* the rest of call i of fetchUser / fetchUserRepositories, once execute has
\* resolved (ok) or rejected: the outcome is written if the ref still holds a
\* request with this call's id that is not flagged, and the finally block
\* clears the loading flag and the ref if the ref holds this call's id
settle(h, i, ok, fromCache) ==
  LET c == h.calls[i]
      cur == h.current[c.kind]
      isCurrent == cur.obj # 0 /\ cur.id = c.id
      live == isCurrent /\ cur.obj \notin h.cancelled
      v == h.view[c.kind]
      written == IF ~live THEN v
                 ELSE IF ok THEN [v EXCEPT !.data = i, !.fromCache = fromCache,
                                           !.meta = i]
                 ELSE [v EXCEPT !.error = i, !.data = 0, !.fromCache = FALSE,
                                !.meta = 0]
  IN [h EXCEPT
        !.view[c.kind] = IF isCurrent THEN [written EXCEPT !.isLoading = FALSE]
                         ELSE written,
        !.current[c.kind] = IF isCurrent THEN NoRequest ELSE @,
        !.calls[i] = [c EXCEPT !.status = "settled", !.ok = ok,
                               !.fromCache = ok /\ fromCache, !.wrote = live]]

\* clearData(): both refs are flagged and set to null, all state is reset;
\* the calls made so far are marked as followed by a clearData
clearData(h) ==
  [h EXCEPT
     !.cancelled = @ \cup {h.current[k].obj : k \in {q \in Kinds : h.current[q].obj # 0}},
     !.current = NoHook.current,
     !.view = NoHook.view,
     !.calls = [i \in DOMAIN h.calls |-> [h.calls[i] EXCEPT !.cleared = TRUE]]]

\* Promise.all in the place of Promise.allSettled: one rejection rejects all
Promise_all(calls, u, r) ==
  IF calls[u].ok /\ calls[r].ok
  THEN [rejected |-> FALSE, user |-> u, repositories |-> r, userError |-> 0,
        repositoriesError |-> 0]
  ELSE [rejected |-> TRUE, user |-> 0, repositories |-> 0, userError |-> 0,
        repositoriesError |-> 0]

\* what fetchUserProfile returns once Promise.allSettled has resolved: for
\* each of the two calls its value or its reason
Promise_allSettled(calls, u, r) ==
  [rejected |-> FALSE,
   user |-> IF calls[u].ok THEN u ELSE 0,
   repositories |-> IF calls[r].ok THEN r ELSE 0,
   userError |-> IF calls[u].ok THEN 0 ELSE u,
   repositoriesError |-> IF calls[r].ok THEN 0 ELSE r]

\* fetchUserProfile up to its await: fetchUser and fetchUserRepositories are
\* both called, one after the other, before anything else runs
fetchUserProfile(h, clock) ==
  LET issued == fetch(fetch(h, "user", clock), "repositories", clock)
  IN [issued EXCEPT
        !.profiles = Append(@, [user |-> Len(h.calls) + 1,
                                repositories |-> Len(h.calls) + 2,
                                status |-> "pending",
                                result |-> [rejected |-> FALSE, user |-> 0,
                                            repositories |-> 0, userError |-> 0,
                                            repositoriesError |-> 0]])]

----------------------------------------------------------------------------
(* State machine: the cache object on its own *)

CacheKeys == {<<"k", "1">>, <<"k", "2">>}

StartTime == 1000
\* the last call made on the cache object and what it returned; `written`
\* remembers, for each key, the arguments of the last set(key, value,
\* ttlSeconds) that no del(key) or flush() has followed
NoCacheOp ==
  [op |-> "none", key |-> <<>>, at |-> 0, present |-> FALSE,
   item |-> [value |-> JNull, expiresAt |-> JNull],
   result |-> [hit |-> FALSE, value |-> JNull], throws |-> {},
   written |-> [k \in CacheKeys |-> [set |-> FALSE, value |-> JNull, ttl |-> JNull]]]

HttpIdle(retryAttempts) ==
  [pc |-> "idle", retryAttempts |-> retryAttempts, attempt |-> 0, calls |-> 0,
   responses |-> <<>>, delays |-> <<>>, lastError |-> BaseErr,
   outcome |-> "none", response |-> OkResponse(NullBody), error |-> BaseErr]

Init ==
  /\ store = EmptyStore
  /\ now = StartTime
  /\ ticks = 0
  /\ cacheLog = NoCacheOp
  /\ http = HttpIdle(AppRetryAttempts)
  /\ execs = <<>>
  /\ hook = NoHook

\* the clock advances
Tick ==
  /\ ticks < MaxTicks
  /\ \E dt \in {1000, 300000} : now' = now + dt
  /\ ticks' = ticks + 1
  /\ cacheLog' = [NoCacheOp EXCEPT !.op = "tick", !.at = now',
                                   !.written = cacheLog.written]
  /\ UNCHANGED <<hook, store, http, execs>>

CacheGet ==
  \E key \in CacheKeys :
    LET r == cache_get(store, now, key)
    IN /\ store' = r.store
       /\ cacheLog' = [op |-> "get", key |-> key, at |-> now,
                       present |-> key \in DOMAIN store,
                       item |-> IF key \in DOMAIN store THEN store[key]
                                ELSE NoCacheOp.item,
                       result |-> r.result, throws |-> {},
                       written |-> cacheLog.written]
       /\ UNCHANGED <<hook, now, ticks, http, execs>>

CacheSet ==
  \* the ttlSeconds argument: omitted, 0, or a number of seconds
  \E key \in CacheKeys, value \in {JStr("v1"), JStr("v2")},
     ttl \in {JUndef, JNum(0), JNum(1)} :
    /\ store' = cache_set(store, now, key, value, ttl)
    /\ cacheLog' = [NoCacheOp EXCEPT
                      !.op = "set", !.key = key, !.at = now,
                      !.written = [cacheLog.written EXCEPT
                                     ![key] = [set |-> TRUE, value |-> value,
                                               ttl |-> ttl]]]
    /\ UNCHANGED <<hook, now, ticks, http, execs>>

CacheDel ==
  \E key \in CacheKeys :
    /\ store' = cache_del(store, key)
    /\ cacheLog' = [NoCacheOp EXCEPT !.op = "del", !.key = key, !.at = now,
                                     !.present = key \in DOMAIN store,
                                     !.written = [cacheLog.written EXCEPT
                                                    ![key] = NoCacheOp.written[key]]]
    /\ UNCHANGED <<hook, now, ticks, http, execs>>

CacheFlush ==
  /\ store' = cache_flush(store)
  /\ cacheLog' = [NoCacheOp EXCEPT !.op = "flush", !.at = now]
  /\ UNCHANGED <<hook, now, ticks, http, execs>>

NextCache == Tick \/ CacheGet \/ CacheSet \/ CacheDel \/ CacheFlush

SpecCache == Init /\ [][NextCache]_vars

----------------------------------------------------------------------------
(* State machine: one HttpClient.request call, attempt by attempt *)

Answers ==
  {OkResponse(ObjBody(EmptyObj))}
  \cup {HttpFailure(st, NoHdr, "") : st \in {403, 404, 500, 503}}
  \cup {HttpFailure(429, r, l) : r \in {NoHdr, Hdr(<<"1", "7">>), Hdr(<<"2", "0">>)},
                                  l \in {"", "60"}}
  \cup {NetFailure(c) : c \in {"ECONNRESET", "ECONNABORTED", "ERR_NETWORK"}}

InitHttp ==
  /\ store = EmptyStore
  /\ now = StartTime
  /\ ticks = 0
  /\ cacheLog = NoCacheOp
  /\ \E cfg \in 0..MaxRetryConfig : http = HttpIdle(ConfiguredRetryAttempts(cfg))
  /\ execs = <<>>
  /\ hook = NoHook

\* request() is entered: the loop starts with attempt = 1 and sends it
HttpCall ==
  /\ http.pc = "idle"
  /\ http' = [http EXCEPT !.pc = "inflight", !.attempt = 1, !.calls = 1]
  /\ UNCHANGED <<hook, store, now, ticks, cacheLog, execs>>

\* the attempt in flight settles: the try block returns, or the catch block runs
HttpAnswer ==
  /\ http.pc = "inflight"
  /\ \E a \in Answers :
       LET error == AxiosError(a)
           h == [http EXCEPT !.responses = Append(@, a)]
       IN http' =
            IF a.ok
            THEN [h EXCEPT !.pc = "done", !.outcome = "returned", !.response = a]
            ELSE IF shouldRetry(error, http.attempt, http.retryAttempts)
                    /\ http.attempt < http.retryAttempts
                 THEN [h EXCEPT !.pc = "delay", !.lastError = error]
                 ELSE [h EXCEPT !.pc = "done", !.lastError = error,
                                !.outcome = "threw",
                                !.error = transformError(error, now)]
  /\ UNCHANGED <<hook, store, now, ticks, cacheLog, execs>>

\* a backoff that waits retryDelay whatever the attempt
HttpDelayElapsed_flat ==
  /\ http.pc = "delay"
  /\ now' = now + AppRetryDelay
  /\ http' = [http EXCEPT !.pc = "inflight", !.attempt = @ + 1, !.calls = @ + 1,
                          !.delays = Append(@, AppRetryDelay)]
  /\ UNCHANGED <<hook, store, ticks, cacheLog, execs>>

\* the delay retryDelay * attempt has elapsed: the loop sends the next attempt
HttpDelayElapsed ==
  /\ http.pc = "delay"
  /\ now' = now + AppRetryDelay * http.attempt
  /\ http' = [http EXCEPT !.pc = "inflight", !.attempt = @ + 1, !.calls = @ + 1,
                          !.delays = Append(@, AppRetryDelay * http.attempt)]
  /\ UNCHANGED <<hook, store, ticks, cacheLog, execs>>

NextHttp == HttpCall \/ HttpAnswer \/ HttpDelayElapsed

SpecHttp == InitHttp /\ [][NextHttp]_vars

----------------------------------------------------------------------------
(* State machine: GetUserUseCase.execute calls, one after the other *)

\* account payloads the remote may send
PayloadFull ==
  [id |-> JNum(1), login |-> JStr("ab"), name |-> JStr("Ab C"), email |-> JNull,
   bio |-> JStr("bio"), avatar_url |-> JStr("https://a.example/1"),
   html_url |-> JStr("https://h.example/ab"), location |-> JStr("here"),
   company |-> JNull, blog |-> JStr("b.example"), twitter_username |-> JNull,
   followers |-> JNum(5), following |-> JNum(0), public_repos |-> JNum(2),
   created_at |-> JIsoDay(-400), updated_at |-> JIsoDay(-3)]
PayloadSparse ==
  [id |-> JNum(2), login |-> JStr("cd"), name |-> JNull,
   avatar_url |-> JStr("https://a.example/2"),
   html_url |-> JStr("https://h.example/cd"), blog |-> JStr("   "),
   followers |-> JNum(-1), public_repos |-> JNum(7),
   created_at |-> JStr("not a date"), updated_at |-> JIsoDay(-40)]
\* a payload without avatar_url: the User constructor rejects it
PayloadBroken ==
  [id |-> JNum(3), login |-> JStr("ef"), html_url |-> JStr("https://h.example/ef")]

F503 == HttpFailure(503, NoHdr, "")
F404 == HttpFailure(404, NoHdr, "")
Ok(payload) == OkResponse(ObjBody(payload))

\* a script names the answer to each of the three attempts a request may make;
\* answers after the one that ends the request are never asked for
Pad(answers) == answers \o [i \in 1..(AppRetryAttempts - Len(answers)) |-> F503]

UserScripts ==
  {Pad(<<Ok(PayloadFull)>>), Pad(<<Ok(PayloadSparse)>>), Pad(<<Ok(PayloadBroken)>>),
   Pad(<<OkResponse(NullBody)>>), Pad(<<F503, Ok(PayloadFull)>>),
   Pad(<<F404>>), <<F503, F503, F503>>,
   <<HttpFailure(429, Hdr(<<"1", "7">>), "60"), HttpFailure(429, NoHdr, ""),
     HttpFailure(429, Hdr(<<"2", "0">>), "60")>>,
   <<NetFailure("ECONNRESET"), NetFailure("ECONNABORTED"), NetFailure("ETIMEDOUT")>>}

Usernames ==
  {StrArg(<<"a", "b">>), StrArg(<<" ", "A", "b", "\t">>), StrArg(<<"c", "-", "d">>),
   StrArg(<<"a", "_">>)}

UserOptions ==
  [useCache : {JUndef, JBool(FALSE)}, forceRefresh : {JUndef, JBool(TRUE)}]

LastSeq == IF execs = <<>> THEN 0 ELSE execs[Len(execs)].seq

\* execs keeps the last two executions
Remember(e) ==
  LET rec == [e EXCEPT !.seq = LastSeq + 1, !.store = EmptyStore]
  IN IF Len(execs) < 2 THEN Append(execs, rec) ELSE <<execs[2], rec>>

\* the call has returned or thrown: the Map and the clock are as it left them
Returned(e) ==
  /\ store' = e.store
  /\ now' = e.endedAt
  /\ execs' = Remember(e)
  /\ UNCHANGED <<hook, ticks, cacheLog, http>>

\* one call of getUserUseCase.execute(username, options), from entry to return
\* or throw
ExecuteUser ==
  /\ LastSeq < MaxExecs
  /\ \E username \in Usernames, options \in UserOptions, script \in UserScripts :
       Returned(GetUserUseCase_execute(store, now, username, options, script))

\* time passes between two calls
Wait ==
  /\ ticks < MaxTicks
  /\ 0 < LastSeq
  /\ LastSeq < MaxExecs
  /\ now' = now + UserTtlSeconds * 1000
  /\ ticks' = ticks + 1
  /\ UNCHANGED <<hook, store, cacheLog, http, execs>>

Next == ExecuteUser \/ Wait

Spec == Init /\ [][Next]_vars

----------------------------------------------------------------------------
(* State machine: one GetUserUseCase.execute call on any identifier *)

RECURSIVE Repeat(_, _)
Repeat(c, k) == IF k = 0 THEN <<>> ELSE <<c>> \o Repeat(c, k - 1)

\* every string of up to MaxNameLen characters of a small alphabet, names at
\* the length limit, and arguments that are no strings
NamingInputs ==
  LET alphabet == {"a", "B", "7", "-", " ", "_"}
      short == UNION {[1..m -> alphabet] : m \in 0..MaxNameLen}
  IN {StrArg(cs) : cs \in short}
     \cup {StrArg(Repeat("a", k)) : k \in {MaxUsernameLength - 1, MaxUsernameLength,
                                           MaxUsernameLength + 1}}
     \cup {StrArg(<<" ">> \o Repeat("B", MaxUsernameLength) \o <<" ">>),
           StrArg(Repeat("a", MaxUsernameLength - 1) \o <<"-">>),
           StrArg(<<"\n", "a", "\n">>),
           UndefArg, NullArg, NumArg(0), NumArg(42)}

\* the first call of getUserUseCase.execute(username, options) of a session
ExecuteNamed ==
  /\ execs = <<>>
  /\ \E username \in NamingInputs, options \in UserOptions,
        script \in {Pad(<<Ok(PayloadFull)>>), Pad(<<F404>>)} :
       Returned(GetUserUseCase_execute(store, now, username, options, script))

SpecNaming == Init /\ [][ExecuteNamed]_vars

----------------------------------------------------------------------------
(* State machine: GetUserRepositoriesUseCase.execute calls, one after the other *)

\* what the remote may answer to the attempts of the listing GET; the
\* owned-item payloads differ in what they leave out, and the last one has no
\* full_name: the Repository constructor rejects it
ListingScripts ==
  LET RepoAlpha ==
        [id |-> JNum(11), name |-> JStr("alpha"), full_name |-> JStr("ab/alpha"),
         description |-> JStr("first"),
         html_url |-> JStr("https://h.example/ab/alpha"),
         language |-> JStr("JavaScript"), stargazers_count |-> JNum(1500),
         forks_count |-> JNum(2), watchers_count |-> JNum(1), size |-> JNum(2048),
         default_branch |-> JStr("main"), private |-> JBool(FALSE),
         fork |-> JBool(FALSE), has_issues |-> JBool(TRUE),
         has_wiki |-> JBool(TRUE), created_at |-> JIsoDay(-400),
         updated_at |-> JIsoDay(-3), pushed_at |-> JIsoDay(-3),
         owner |-> JStr("ab")]
      RepoBeta ==
        [id |-> JNum(12), name |-> JStr("beta"), full_name |-> JStr("ab/beta"),
         html_url |-> JStr("https://h.example/ab/beta"), language |-> JNull,
         stargazers_count |-> JNum(-5), size |-> JNum(9), fork |-> JBool(TRUE),
         created_at |-> JIsoDay(-10), pushed_at |-> JIsoDay(-90)]
      RepoGamma ==
        [id |-> JNum(13), name |-> JStr("gamma"), full_name |-> JStr("ab/gamma"),
         html_url |-> JStr("https://h.example/ab/gamma"), language |-> JStr("Go"),
         stargazers_count |-> JNum(3), forks_count |-> JNum(1), size |-> JNum(100),
         has_issues |-> JBool(TRUE), private |-> JBool(TRUE),
         created_at |-> JStr("not a date"), pushed_at |-> JIsoDay(-29)]
      RepoBroken == [id |-> JNum(14), name |-> JStr("delta")]
      Listing(items) == OkResponse(ArrBody(items))
  IN {Pad(<<Listing(<<>>)>>), Pad(<<Listing(<<RepoAlpha>>)>>),
      Pad(<<Listing(<<RepoBeta, RepoGamma, RepoAlpha>>)>>),
      Pad(<<Listing(<<RepoAlpha, RepoBroken>>)>>),
      Pad(<<Ok(PayloadFull)>>), Pad(<<F503, Listing(<<RepoGamma, RepoAlpha>>)>>),
      Pad(<<F404>>),
      <<HttpFailure(429, Hdr(<<"1", "7">>), "60"), HttpFailure(429, NoHdr, ""),
        HttpFailure(429, Hdr(<<"2", "0">>), "60")>>}

ReposUsernames ==
  {StrArg(<<"a", "b">>), StrArg(<<" ", "A", "b", "\t">>), StrArg(<<"a", "_">>),
   StrArg(<<" ">>)}

ReposOptions ==
  {EmptyObj,
   [useCache |-> JBool(FALSE)],
   [forceRefresh |-> JBool(TRUE)],
   [language |-> JStr("javascript"), perPage |-> JNum(1)],
   [type |-> JStr("fork"), customSort |-> JStr("name"), page |-> JNum(2)],
   [minStars |-> JNum(3), customSort |-> JStr("stars"), perPage |-> JNum(2)],
   [activeOnly |-> JBool(TRUE), includeAnalytics |-> JBool(FALSE)],
   [perPage |-> JNum(101)],
   [sort |-> JStr("stars"), page |-> JNum(0)]}

\* one call of getUserRepositoriesUseCase.execute(username, options), from
\* entry to return or throw
ExecuteRepos ==
  /\ LastSeq < MaxExecs
  /\ \E username \in ReposUsernames, options \in ReposOptions,
        script \in ListingScripts :
       Returned(GetUserRepositoriesUseCase_execute(store, now, username, options,
                                                   script))

NextRepos == ExecuteRepos \/ Wait

SpecRepos == Init /\ [][NextRepos]_vars

----------------------------------------------------------------------------
(* State machine: one GetUserRepositoriesUseCase.execute call on any options *)

\* every combination of a page, a perPage, a sort and a direction, each of
\* them given or left out (t = "absent")
OptionInputs ==
  LET absent == [t |-> "absent", s |-> "", n |-> 0]
      given == [page : {absent, JNull, JNum(0), JNum(1), JNum(2), JNum(-1), JStr("2")},
                perPage : {absent, JNum(0), JNum(1), JNum(100), JNum(101), JNum(-1)},
                sort : {absent, JStr(""), JStr("created"), JStr("full_name"),
                        JStr("stars")},
                direction : {absent, JStr(""), JStr("asc"), JStr("up")}]
  IN {[k \in {q \in DOMAIN g : g[q] # absent} |-> g[k]] : g \in given}

\* the first call of getUserRepositoriesUseCase.execute("ab", options) of a
\* session
ExecuteWithOptions ==
  /\ execs = <<>>
  /\ \E options \in OptionInputs,
        script \in {sc \in ListingScripts : sc[1].ok /\ sc[1].data.kind = "array"} :
       Returned(GetUserRepositoriesUseCase_execute(store, now, StrArg(<<"a", "b">>),
                                                   options, script))

SpecOptions == Init /\ [][ExecuteWithOptions]_vars

----------------------------------------------------------------------------
(* State machine: one GetUserRepositoriesUseCase.execute call on any filters *)

\* what the remote may answer to the listing GET: no item, one item, three
\* items of one language, and five items of which two are forks; the items
\* differ in language, stars, fork flag and day of the last push
FilterListings ==
  LET Item(n, language, stars, fork, pushed) ==
        [id |-> JNum(n), name |-> JStr("r"), full_name |-> JStr("ab/r"),
         html_url |-> JStr("https://h.example/ab/r"), language |-> language,
         stargazers_count |-> JNum(stars), fork |-> JBool(fork),
         has_issues |-> JBool(TRUE), has_wiki |-> JBool(fork),
         created_at |-> JIsoDay(-400), pushed_at |-> JIsoDay(pushed)]
      Five == <<Item(1, JStr("JavaScript"), 150, FALSE, -3),
                Item(2, JStr("Go"), 3, TRUE, -3),
                Item(3, JStr("javascript"), 0, TRUE, -90),
                Item(4, JNull, 7, FALSE, -90),
                Item(5, JStr("Go"), 2, FALSE, -29)>>
  IN {Pad(<<OkResponse(ArrBody(items))>>) :
        items \in {<<>>, SubSeq(Five, 1, 1), SubSeq(Five, 3, 5), Five}}

\* every combination of a language, a type, a minStars, an activeOnly, an
\* includeAnalytics and a perPage, each of them given or left out
FilterInputs ==
  LET absent == [t |-> "absent", s |-> "", n |-> 0]
      given == [language : {absent, JStr("javascript"), JStr("GO"), JStr("Rust")},
                type : {absent, JStr("fork"), JStr("source"), JStr("all")},
                minStars : {absent, JNum(3), JNum(100)},
                activeOnly : {absent, JBool(TRUE), JBool(FALSE)},
                includeAnalytics : {absent, JBool(FALSE)},
                perPage : {absent, JNum(1), JNum(3)}]
  IN {[k \in {q \in DOMAIN g : g[q] # absent} |-> g[k]] : g \in given}

\* the first call of getUserRepositoriesUseCase.execute("ab", options) of a
\* session
ExecuteWithFilters ==
  /\ execs = <<>>
  /\ \E options \in FilterInputs, script \in FilterListings :
       Returned(GetUserRepositoriesUseCase_execute(store, now, StrArg(<<"a", "b">>),
                                                   options, script))

SpecFilters == Init /\ [][ExecuteWithFilters]_vars

----------------------------------------------------------------------------
(* State machine: one GetUserRepositoriesUseCase.execute call on listings *)
(* of many languages                                                      *)

\* the largest listing the remote answers with
MaxRepos == 12

\* listings of n items in k distinct languages, for every n up to MaxRepos
\* and every k up to n: the languages are dealt in turn, or the first
\* language takes every item the others leave
LanguageListings ==
  LET Item(i, language) ==
        [id |-> JNum(i), name |-> JStr("r"), full_name |-> JStr("ab/r"),
         html_url |-> JStr("https://h.example/ab/r"),
         language |-> JStr("L" \o ToString(language)),
         stargazers_count |-> JNum(i), pushed_at |-> JIsoDay(-3)]
      dealt(n, k) == [i \in 1..n |-> Item(i, ((i - 1) % k) + 1)]
      skewed(n, k) == [i \in 1..n |-> Item(i, IF i <= n - k THEN 1 ELSE i - (n - k))]
  IN {Pad(<<OkResponse(ArrBody(items))>>) :
        items \in UNION {{dealt(nk[1], nk[2]), skewed(nk[1], nk[2])} :
                           nk \in {p \in (1..MaxRepos) \X (1..MaxRepos) : p[2] <= p[1]}}}

\* the first call of getUserRepositoriesUseCase.execute("ab") of a session
ExecuteOnLanguages ==
  /\ execs = <<>>
  /\ \E script \in LanguageListings :
       Returned(GetUserRepositoriesUseCase_execute(store, now, StrArg(<<"a", "b">>),
                                                   EmptyObj, script))

SpecLanguages == Init /\ [][ExecuteOnLanguages]_vars

----------------------------------------------------------------------------
(* State machine: one execute call on a payload with any counts *)

\* the counts of a payload, each a number, null or left out
CountInputs(fields, values) ==
  LET absent == [t |-> "absent", s |-> "", n |-> 0]
  IN {[k \in {q \in DOMAIN g : g[q] # absent} |-> g[k]] :
        g \in [fields -> {absent, JNull} \cup {JNum(v) : v \in values}]}

\* payload with the properties of counts added or replaced
WithCounts(payload, counts) ==
  [k \in DOMAIN payload \cup DOMAIN counts |->
     IF k \in DOMAIN counts THEN counts[k] ELSE payload[k]]

\* the first call of getUserUseCase.execute("ab") of a session, the remote
\* answering with an account
ExecuteUserOnCounts ==
  /\ execs = <<>>
  /\ \E counts \in CountInputs({"followers", "following", "public_repos"},
                                {-5, 0, 7}) :
       LET payload ==
             WithCounts([id |-> JNum(1), login |-> JStr("ab"),
                         avatar_url |-> JStr("https://a.example/1"),
                         html_url |-> JStr("https://h.example/ab")], counts)
       IN Returned([GetUserUseCase_execute(
                      store, now, StrArg(<<"a", "b">>),
                      [useCache |-> JUndef, forceRefresh |-> JUndef],
                      Pad(<<Ok(payload)>>))
                      EXCEPT !.payload = payload])

\* the first call of getUserRepositoriesUseCase.execute("ab") of a session,
\* the remote answering with one item
ExecuteReposOnCounts ==
  /\ execs = <<>>
  /\ \E stars \in CountInputs({"stargazers_count"}, {-5, 0, 99, 100, 1500}),
        counts \in CountInputs({"forks_count", "watchers_count", "size"}, {-1, 2}) :
       LET payload ==
             WithCounts(WithCounts([id |-> JNum(11), name |-> JStr("alpha"),
                                    full_name |-> JStr("ab/alpha"),
                                    html_url |-> JStr("https://h.example/ab/alpha")],
                                   stars), counts)
       IN Returned([GetUserRepositoriesUseCase_execute(
                      store, now, StrArg(<<"a", "b">>), EmptyObj,
                      Pad(<<OkResponse(ArrBody(<<payload>>))>>))
                      EXCEPT !.payload = payload])

NextCounts == ExecuteUserOnCounts \/ ExecuteReposOnCounts

SpecCounts == Init /\ [][NextCounts]_vars

----------------------------------------------------------------------------
(* State machine: one execute call on a payload with any required fields *)

\* the required fields of a payload, each a string, a number, null or left out
FieldInputs(fields) ==
  LET absent == [t |-> "absent", s |-> "", n |-> 0]
  IN {[k \in {q \in DOMAIN g : g[q] # absent} |-> g[k]] :
        g \in [fields -> {absent, JNull, JStr("https://h.example/ab"), JNum(7)}]}

\* the first call of getUserUseCase.execute("ab") of a session, the remote
\* answering 200 with an object
ExecuteUserOnFields ==
  /\ execs = <<>>
  /\ \E payload \in FieldInputs({"id", "login", "avatar_url", "html_url"}) :
       Returned([GetUserUseCase_execute(
                   store, now, StrArg(<<"a", "b">>),
                   [useCache |-> JUndef, forceRefresh |-> JUndef],
                   Pad(<<Ok(payload)>>))
                   EXCEPT !.payload = payload])

\* the first call of getUserRepositoriesUseCase.execute("ab") of a session,
\* the remote answering 200 with a list of one object
ExecuteReposOnFields ==
  /\ execs = <<>>
  /\ \E payload \in FieldInputs({"id", "name", "full_name", "html_url"}) :
       Returned([GetUserRepositoriesUseCase_execute(
                   store, now, StrArg(<<"a", "b">>), EmptyObj,
                   Pad(<<OkResponse(ArrBody(<<payload>>))>>))
                   EXCEPT !.payload = payload])

NextFields == ExecuteUserOnFields \/ ExecuteReposOnFields

SpecFields == Init /\ [][NextFields]_vars

----------------------------------------------------------------------------
(* State machine: cache keys computed for requests, one after the other *)

\* every combination of the six options the key is made of, each of them
\* given or left out
KeyInputs ==
  LET absent == [t |-> "absent", s |-> "", n |-> 0]
      given == [page : {absent, JNum(2)}, perPage : {absent, JNum(2)},
                sort : {absent, JStr("full_name")}, direction : {absent, JStr("asc")},
                language : {absent, JStr("all"), JStr("go")},
                type : {absent, JStr("fork"), JStr("Fork")}]
  IN {[k \in {q \in DOMAIN g : g[q] # absent} |-> g[k]] : g \in given}

\* the key under which execute(username, options) reads and writes the cache:
\* getRepositoriesCacheKey(generateCacheKey(normalizedUsername, config))
ComputeRepositoriesKey ==
  /\ LastSeq < MaxExecs
  /\ \E username \in {<<"a", "b">>, <<"c", "d">>}, options \in KeyInputs :
       Returned([NoExec EXCEPT
                   !.op = "repositoriesKey", !.input = StrArg(username),
                   !.options = options, !.store = store,
                   !.startedAt = now, !.endedAt = now,
                   !.path = Repos_normalizeUsername(username),
                   !.cacheKey =
                     getRepositoriesCacheKey(
                       generateCacheKey(Repos_normalizeUsername(username),
                                        Spread(defaultOptions, options)))])

\* the key under which the account of username is cached
ComputeUserKey ==
  /\ LastSeq < MaxExecs
  /\ \E username \in {<<"a", "b">>, <<"c", "d">>} :
       Returned([NoExec EXCEPT
                   !.op = "userKey", !.input = StrArg(username), !.store = store,
                   !.startedAt = now, !.endedAt = now,
                   !.path = normalizeUsername(username),
                   !.cacheKey = getUserCacheKey(normalizeUsername(username))])

NextKeys == ComputeRepositoriesKey \/ ComputeUserKey

SpecKeys == Init /\ [][NextKeys]_vars

----------------------------------------------------------------------------
(* State machine: the first execute call of a session, of either use case *)

ExecuteUserOnce ==
  /\ execs = <<>>
  /\ \E username \in Usernames, options \in UserOptions, script \in UserScripts :
       Returned(GetUserUseCase_execute(store, now, username, options, script))

ExecuteReposOnce ==
  /\ execs = <<>>
  /\ \E username \in ReposUsernames, options \in ReposOptions,
        script \in ListingScripts :
       Returned(GetUserRepositoriesUseCase_execute(store, now, username, options,
                                                   script))

\* execute(username, {useCache: false}) of either use case, constructed on a
\* userRepository whose fetch rejects with the given error
ExecuteOnRejectingRepository ==
  /\ execs = <<>>
  /\ \E username \in Usernames \cap ReposUsernames, op \in {"user", "repos"},
        error \in {UserNotFoundError(<<"a", "b">>), ValidationError("username"),
                   NetworkError(<<"a", "b">>, PlainError("id")),
                   RateLimitError(JStr("60"), JDate(17000)), PlainError("id")} :
       LET base == [NoExec EXCEPT !.op = op, !.input = username,
                                  !.options = [useCache |-> JBool(FALSE)],
                                  !.startedAt = now, !.endedAt = now,
                                  !.store = store]
           f == [ok |-> FALSE, user |-> EmptyObj, repositories |-> <<>>,
                 error |-> error, path |-> normalizeUsername(username.chars),
                 params |-> base.params, calls |-> 0, clock |-> now,
                 transportOk |-> FALSE, transportError |-> BaseErr,
                 finalStatus |-> 0]
       IN Returned(IF op = "user"
                   THEN execute_fetch(base, JBool(FALSE), username,
                                      normalizeUsername(username.chars), f)
                   ELSE Repos_execute_fetch(
                          base, Spread(defaultOptions, base.options), username,
                          Repos_normalizeUsername(username.chars), f))

NextOnce == ExecuteUserOnce \/ ExecuteReposOnce \/ ExecuteOnRejectingRepository

SpecOnce == Init /\ [][NextOnce]_vars

----------------------------------------------------------------------------
(* State machine: one GetUserUseCase.execute call on any profile *)

\* account payloads with every combination of the seven profile fields given
\* or left out; a blog may also be blank
ProfileInputs ==
  LET absent == [t |-> "absent", s |-> "", n |-> 0]
      given == [name : {absent, JStr("Ab C")}, bio : {absent, JStr("bio")},
                location : {absent, JStr("here")}, company : {absent, JStr("co")},
                blog : {absent, JStr("b.example"), JStr("   ")},
                email : {absent, JStr("a@b.example")},
                twitter_username : {absent, JStr("ab")}]
  IN {[k \in {q \in DOMAIN g : g[q] # absent} |-> g[k]] : g \in given}

\* the first call of getUserUseCase.execute("ab") of a session, the remote
\* answering with an account
ExecuteUserOnProfile ==
  /\ execs = <<>>
  /\ \E profile \in ProfileInputs :
       LET payload ==
             WithCounts([id |-> JNum(1), login |-> JStr("ab"),
                         avatar_url |-> JStr("https://a.example/1"),
                         html_url |-> JStr("https://h.example/ab")], profile)
       IN Returned([GetUserUseCase_execute(
                      store, now, StrArg(<<"a", "b">>),
                      [useCache |-> JUndef, forceRefresh |-> JUndef],
                      Pad(<<Ok(payload)>>))
                      EXCEPT !.payload = payload])

SpecProfile == Init /\ [][ExecuteUserOnProfile]_vars

----------------------------------------------------------------------------
(* State machine: execute calls of the two use cases on one cache, one after *)
(* the other                                                                 *)

NextBoth == ExecuteUser \/ ExecuteRepos \/ Wait

SpecBoth == Init /\ [][NextBoth]_vars

----------------------------------------------------------------------------
(* State machine: one GetUserUseCase.userExists call on any argument *)

\* the first call of getUserUseCase.userExists(username) of a session
CallUseCaseUserExists ==
  /\ execs = <<>>
  /\ \E username \in NamingInputs,
        script \in {Pad(<<Ok(PayloadFull)>>), Pad(<<F404>>), <<F503, F503, F503>>,
                    Pad(<<F503, Ok(PayloadFull)>>),
                    Pad(<<HttpFailure(429, NoHdr, "")>>),
                    Pad(<<NetFailure("ERR_NETWORK")>>)} :
       Returned(GetUserUseCase_userExists(store, now, username, script))

SpecExists == Init /\ [][CallUseCaseUserExists]_vars

----------------------------------------------------------------------------
(* State machine: executions of both use cases for "ab" and clearUserCache *)

MaxClearSteps == 3

ClearListingScripts ==
  LET RepoOne ==
        [id |-> JNum(21), name |-> JStr("one"), full_name |-> JStr("ab/one"),
         html_url |-> JStr("https://h.example/ab/one"),
         language |-> JStr("Go"), stargazers_count |-> JNum(4)]
  IN {Pad(<<OkResponse(ArrBody(<<RepoOne>>))>>), Pad(<<F404>>)}

ClearReposOptions ==
  {EmptyObj, [perPage |-> JNum(1)], [language |-> JStr("go"), page |-> JNum(2)],
   [useCache |-> JBool(FALSE)]}

ExecuteUserBeforeOrAfterClear ==
  /\ LastSeq < MaxClearSteps
  /\ \E script \in {Pad(<<Ok(PayloadFull)>>), Pad(<<F404>>)} :
       Returned(GetUserUseCase_execute(
                  store, now, StrArg(<<"a", "b">>),
                  [useCache |-> JUndef, forceRefresh |-> JUndef], script))

ExecuteReposBeforeOrAfterClear ==
  /\ LastSeq < MaxClearSteps
  /\ \E options \in ClearReposOptions, script \in ClearListingScripts :
       Returned(GetUserRepositoriesUseCase_execute(
                  store, now, StrArg(<<"a", "b">>), options, script))

\* one call of userRepository.clearUserCache("ab")
ClearUserCache ==
  /\ LastSeq < MaxClearSteps
  /\ Returned([NoExec EXCEPT !.op = "clearUserCache",
                             !.input = StrArg(<<"a", "b">>),
                             !.outcome = "returned",
                             !.startedAt = now, !.endedAt = now,
                             !.store = clearUserCache(store, <<"a", "b">>)])

NextClear ==
  ExecuteUserBeforeOrAfterClear \/ ExecuteReposBeforeOrAfterClear \/ ClearUserCache

SpecClear == Init /\ [][NextClear]_vars

----------------------------------------------------------------------------
(* State machine: overlapping GetUserUseCase.execute("ab") calls; each runs *)
(* to its await of the remote fetch, and its remote response arrives later *)

MaxOverlap == 2

\* execute("ab") is called and runs to its first pending await: validation,
\* the cache lookup and, on a miss, the start of the remote fetch
OverlapStart ==
  /\ Len(execs) < MaxOverlap
  /\ LET username == StrArg(<<"a", "b">>)
         normalizedUsername == normalizeUsername(username.chars)
         cached == getCachedUser(store, now, normalizedUsername)
         afterLookup ==
           [NoExec EXCEPT !.seq = Len(execs) + 1, !.op = "user",
                          !.input = username, !.useCache = TRUE,
                          !.startedAt = now, !.endedAt = now,
                          !.cacheReads = 1, !.repositoryCalls = 1,
                          !.cacheKey = cached.key]
     IN /\ store' = cached.store
        /\ execs' = Append(execs,
                           IF cached.hit
                           THEN [afterLookup EXCEPT !.outcome = "returned",
                                                    !.fromCache = TRUE,
                                                    !.user = cached.user]
                           ELSE [afterLookup EXCEPT !.outcome = "pending"])
  /\ UNCHANGED <<hook, now, ticks, cacheLog, http>>

\* the remote response of a pending execute arrives: the rest of execute runs
\* on the Map as it is now
OverlapRespond ==
  /\ \E i \in DOMAIN execs,
        script \in {Pad(<<Ok(PayloadFull)>>), Pad(<<Ok(PayloadSparse)>>), Pad(<<F404>>)} :
       /\ execs[i].outcome = "pending"
       /\ LET normalizedUsername == normalizeUsername(execs[i].input.chars)
              e == execute_fetch([execs[i] EXCEPT !.store = store], JBool(TRUE),
                                 execs[i].input, normalizedUsername,
                                 findByUsername(normalizedUsername, script, now))
          IN /\ store' = e.store
             /\ execs' = [execs EXCEPT ![i] = [e EXCEPT !.store = EmptyStore]]
  /\ UNCHANGED <<hook, now, ticks, cacheLog, http>>

\* a second passes
OverlapTick ==
  /\ ticks < MaxTicks
  /\ now' = now + 1000
  /\ ticks' = ticks + 1
  /\ UNCHANGED <<hook, store, cacheLog, http, execs>>

NextOverlap == OverlapStart \/ OverlapRespond \/ OverlapTick

SpecOverlap == Init /\ [][NextOverlap]_vars

----------------------------------------------------------------------------
(* State machine: calls on the useUser hook and the completions of the use *)
(* cases it awaits, in any order                                           *)

\* the clock advances by a millisecond; once it is past the time of every
\* call made, how far past makes no difference
HookTick ==
  /\ ticks < MaxTicks
  /\ \E i \in DOMAIN hook.calls : hook.calls[i].id = now
  /\ now' = now + 1
  /\ ticks' = ticks + 1
  /\ UNCHANGED <<store, cacheLog, http, execs, hook>>

\* a component calls fetchUser or fetchUserRepositories
HookFetch ==
  /\ Len(hook.calls) < MaxCalls
  /\ \E kind \in Kinds : hook' = fetch(hook, kind, now)
  /\ UNCHANGED <<store, now, ticks, cacheLog, http, execs>>

\* a component calls fetchUserProfile
HookFetchProfile ==
  /\ Len(hook.calls) + 2 <= MaxCalls
  /\ hook' = fetchUserProfile(hook, now)
  /\ UNCHANGED <<store, now, ticks, cacheLog, http, execs>>

\* the execute a pending call awaits resolves or rejects
HookSettle ==
  /\ \E i \in DOMAIN hook.calls, ok \in BOOLEAN, fromCache \in BOOLEAN :
       /\ hook.calls[i].status = "pending"
       /\ ok \/ ~fromCache
       /\ hook' = settle(hook, i, ok, fromCache)
  /\ UNCHANGED <<store, now, ticks, cacheLog, http, execs>>

\* the Promise.allSettled a fetchUserProfile awaits resolves, both calls
\* having settled
HookProfileSettle ==
  /\ \E p \in DOMAIN hook.profiles :
       /\ hook.profiles[p].status = "pending"
       /\ hook.calls[hook.profiles[p].user].status = "settled"
       /\ hook.calls[hook.profiles[p].repositories].status = "settled"
       /\ hook' = [hook EXCEPT
                     !.profiles[p].status = "settled",
                     !.profiles[p].result =
                       Promise_allSettled(hook.calls, hook.profiles[p].user,
                                          hook.profiles[p].repositories)]
  /\ UNCHANGED <<store, now, ticks, cacheLog, http, execs>>

\* a component calls clearData
HookClearData ==
  /\ hook' = clearData(hook)
  /\ UNCHANGED <<store, now, ticks, cacheLog, http, execs>>

NextHook ==
  \/ HookTick \/ HookFetch \/ HookFetchProfile \/ HookSettle
  \/ HookProfileSettle \/ HookClearData

SpecHook == Init /\ [][NextHook]_vars

----------------------------------------------------------------------------
(* State machine: one call of a GitHubUserRepository method *)

\* one call of userRepository.userExists(username), the remote answering the
\* attempts in any way
CallUserExists ==
  /\ LastSeq < MaxExecs
  /\ \E username \in {<<"a", "b">>}, script \in [1..AppRetryAttempts -> Answers] :
       LET r == userExists(username, script, now)
       IN Returned([NoExec EXCEPT
                      !.op = "userExists", !.input = StrArg(username),
                      !.outcome = IF r.threw THEN "threw" ELSE "returned",
                      !.exists = r.value, !.httpRequests = 1,
                      !.attempts = r.calls, !.path = r.path,
                      !.transportOk = r.transportOk,
                      !.transportError = r.transportError,
                      !.finalStatus = r.finalStatus,
                      !.startedAt = now, !.endedAt = r.clock, !.store = store])

SpecGateway == Init /\ [][CallUserExists]_vars

----------------------------------------------------------------------------
(* State machine: the use cases and the repository on a cache that fails *)

\* the application wired to a cache object some of whose methods throw
InitFaulty ==
  /\ store = EmptyStore
  /\ now = StartTime
  /\ ticks = 0
  /\ \E throws \in {{}, {"get"}, {"set"}, {"del", "flush"},
                     {"get", "set", "del", "flush"}} :
       cacheLog = [NoCacheOp EXCEPT !.throws = throws]
  /\ http = HttpIdle(AppRetryAttempts)
  /\ execs = <<>>
  /\ hook = NoHook

\* one call of getUserUseCase.execute or getUserRepositoriesUseCase.execute,
\* the remote answering the first attempt
ExecuteOnFaulty ==
  /\ LastSeq < MaxExecs
  /\ \E username \in {StrArg(<<"a", "b">>), StrArg(<<" ", "A", "b", "\t">>)} :
       \/ \E options \in UserOptions,
             script \in {sc \in UserScripts : sc[1].hasResponse /\ sc[1].status # 503} :
            Returned(GetUserUseCase_execute(store, now, username, options, script))
       \/ \E options \in {EmptyObj, [forceRefresh |-> JBool(TRUE)]},
             script \in {sc \in ListingScripts : sc[1].hasResponse /\ sc[1].status # 503} :
            Returned(GetUserRepositoriesUseCase_execute(store, now, username,
                                                        options, script))

\* one call of userRepository.clearUserCache("ab") or clearAllCache(); present
\* tells whether an entry the call was to remove is still there after it
ClearOnFaulty ==
  /\ \/ /\ store' = clearUserCache(store, <<"a", "b">>)
        /\ cacheLog' = [cacheLog EXCEPT
                          !.op = "clearUserCache", !.at = now,
                          !.present =
                            \/ getUserCacheKey(<<"a", "b">>) \in DOMAIN store'
                            \/ getRepositoriesCacheKey(<<"a", "b">>) \in DOMAIN store']
     \/ /\ store' = clearAllCache(store)
        /\ cacheLog' = [cacheLog EXCEPT !.op = "clearAllCache", !.at = now,
                                        !.present = store' # EmptyStore]
  /\ UNCHANGED <<hook, now, ticks, http, execs>>

NextFaulty == ExecuteOnFaulty \/ ClearOnFaulty

SpecFaulty == InitFaulty /\ [][NextFaulty]_vars

----------------------------------------------------------------------------
(* Claims *)

\* the answers the remote has given to this request so far are all `status`
AllAnswered(status) ==
  /\ http.responses # <<>>
  /\ \A i \in 1..Len(http.responses) : http.responses[i].status = status

\* C1: with 3 attempts configured, a remote answering 503 every time is called
\* exactly 3 times (the request does not end before, and makes no 4th call) and
\* request then throws NetworkError; a 404 to the first attempt ends the
\* request after exactly 1 call, with an error thrown.
C1_RetryBoundary ==
  /\ (http.retryAttempts = 3 /\ AllAnswered(503)) =>
        /\ http.calls <= 3
        /\ (http.pc = "done") = (Len(http.responses) = 3)
        /\ http.pc = "done" =>
             /\ http.calls = 3
             /\ http.outcome = "threw"
             /\ http.error.name = "NetworkError"
  /\ (http.responses # <<>> /\ http.responses[1].status = 404) =>
        /\ http.pc = "done"
        /\ http.calls = 1
        /\ Len(http.responses) = 1
        /\ http.outcome = "threw"

C1_Witness503 ==
  /\ http.retryAttempts = 3 /\ AllAnswered(503)
  /\ http.pc = "done" /\ http.calls = 3 /\ http.error.name = "NetworkError"

\* C2: a request whose every attempt is answered 429 uses all configured
\* attempts and then throws RateLimitError; its reset is the instant the last
\* response's x-ratelimit-reset header names in epoch seconds ("17" is 17000 ms,
\* "20" is 20000 ms) and its limit is that response's x-ratelimit-limit header.
C2_RateLimitSurfaced ==
  (http.pc = "done" /\ AllAnswered(429)) =>
     LET last == http.responses[Len(http.responses)]
     IN /\ http.calls = http.retryAttempts
        /\ http.outcome = "threw"
        /\ http.error.name = "RateLimitError"
        /\ last.resetHdr = Hdr(<<"1", "7">>) => http.error.reset = JDate(17000)
        /\ last.resetHdr = Hdr(<<"2", "0">>) => http.error.reset = JDate(20000)
        /\ last.limitHdr = "60" => http.error.limit = JStr("60")

C2_Witness ==
  /\ http.pc = "done" /\ AllAnswered(429) /\ http.retryAttempts = 3
  /\ http.calls = 3
  /\ http.responses[1].resetHdr = Hdr(<<"1", "7">>)
  /\ http.responses[3].resetHdr = Hdr(<<"2", "0">>)
  /\ http.responses[3].limitHdr = "60"
  /\ http.error.reset = JDate(20000)

\* C10: a get(key) never returns the value of an entry whose expiresAt is
\* earlier than the time of the read: such a read returns null, and right
\* after it the key is no longer among getStats().keys.
C10_ExpiredReadIsAbsent ==
  (/\ cacheLog.op = "get"
   /\ cacheLog.present
   /\ cacheLog.item.expiresAt.t = "number"
   /\ cacheLog.item.expiresAt.n < cacheLog.at) =>
     /\ ~cacheLog.result.hit
     /\ cacheLog.key \notin cache_keys(store)

C10_Witness ==
  /\ cacheLog.op = "get"
  /\ cacheLog.present
  /\ cacheLog.item.expiresAt.t = "number"
  /\ cacheLog.item.expiresAt.n < cacheLog.at
  /\ ~cacheLog.result.hit
  /\ cacheLog.key \notin cache_keys(store)

\* C11: an entry written by set(key, value, ttlSeconds) with ttlSeconds 0 or
\* omitted never expires: every get(key) that follows, with no del(key) or
\* flush() in between, returns the value, however far the clock has advanced.
C11_NoTtlNeverExpires ==
  (/\ cacheLog.op = "get"
   /\ cacheLog.written[cacheLog.key].set
   /\ cacheLog.written[cacheLog.key].ttl \in {JUndef, JNum(0)}) =>
     /\ cacheLog.result.hit
     /\ cacheLog.result.value = cacheLog.written[cacheLog.key].value

\* the executions of execute(username, options) on record
Executions == {execs[i] : i \in 1..Len(execs)}

\* execute made no repository, cache or network call
NoCalls(e) ==
  /\ e.repositoryCalls = 0
  /\ e.cacheReads = 0
  /\ e.cacheWrites = 0
  /\ e.httpRequests = 0
  /\ e.attempts = 0

\* C16: execute of the owned-items operation raises ValidationError, with no
\* repository, cache or network call made, for every options value in which
\* page is not an integer >= 1, perPage is not an integer between 1 and 100,
\* sort is not one of the four allowed values, or direction is not asc or
\* desc; a field left out has its default.
C16_InvalidOptionsRejected ==
  \A e \in Executions :
    LET config == Spread(defaultOptions, e.options)
    IN (/\ e.op = "repos"
        /\ \/ ~(IsInteger(config.page) /\ config.page.n >= 1)
           \/ ~(IsInteger(config.perPage) /\ config.perPage.n >= 1
                 /\ config.perPage.n <= 100)
           \/ ~(config.sort.t = "string"
                 /\ config.sort.s \in {"created", "updated", "pushed", "full_name"})
           \/ ~(config.direction.t = "string"
                 /\ config.direction.s \in {"asc", "desc"})) =>
         /\ e.outcome = "threw"
         /\ e.error.name = "ValidationError"
         /\ NoCalls(e)

\* C17: filters select the returned items and nothing else.  Whenever
\* GetUserRepositoriesUseCase.execute returns a freshly fetched result,
\* result.repositories holds exactly the fetched items that satisfy every
\* given filter (language, type, minStars, activeOnly), in the fetched order,
\* while totalCount, the four partitions of categorization and, when enabled,
\* analytics are those of the whole fetched list.
C17_FiltersSelectOnly ==
  \A e \in Executions :
    (e.op = "repos" /\ e.outcome = "returned" /\ ~e.fromCache) =>
      LET o == e.options
          all == e.listing
          at == e.endedAt
          passes(r) ==
            /\ "language" \in DOMAIN o =>
                 r.language.t = "string" /\ LowerOf(r.language.s) = LowerOf(o.language.s)
            /\ ("type" \in DOMAIN o /\ o.type = JStr("fork")) => r.isFork = JBool(TRUE)
            /\ ("type" \in DOMAIN o /\ o.type = JStr("source")) => r.isFork = JBool(FALSE)
            /\ "minStars" \in DOMAIN o => r.stargazersCount.n >= o.minStars.n
            /\ ("activeOnly" \in DOMAIN o /\ o.activeOnly = JBool(TRUE)) =>
                 isActiveRepository(r, at)
          part(Test(_)) == Instances(SelectSeq(all, Test))
          c == e.result.categorization
      IN /\ e.result.repositories = part(passes)
         /\ e.result.filteredCount = JNum(Len(part(passes)))
         /\ e.result.totalCount = JNum(Len(all))
         /\ c.byType.original = part(LAMBDA r : r.isFork = JBool(FALSE))
         /\ c.byType.forked = part(LAMBDA r : r.isFork = JBool(TRUE))
         /\ c.byActivity.active = part(LAMBDA r : isActiveRepository(r, at))
         /\ c.byActivity.inactive = part(LAMBDA r : ~isActiveRepository(r, at))
         /\ c.byPopularity.popular = part(LAMBDA r : r.stargazersCount.n >= PopularStars)
         /\ c.byPopularity.standard = part(LAMBDA r : r.stargazersCount.n < PopularStars)
         /\ c.byMaintenance.wellMaintained = part(LAMBDA r : isWellMaintained(r, at))
         /\ c.byMaintenance.needsAttention = part(LAMBDA r : ~isWellMaintained(r, at))
         /\ ("includeAnalytics" \notin DOMAIN o /\ all # <<>>) =>
              /\ e.result.analytics = generateAnalytics(all, at)
              /\ e.result.analytics.overview.totalRepositories = JNum(Len(all))

\* the scenario of the claim: type = fork on two forks and three originals
\* gave the two forks, and byType.original has the three originals
C17_Witness ==
  \E e \in Executions :
    /\ e.op = "repos" /\ e.outcome = "returned" /\ ~e.fromCache
    /\ "type" \in DOMAIN e.options /\ e.options.type = JStr("fork")
    /\ Len(e.listing) = 5
    /\ Len(e.result.repositories) = 2
    /\ Len(e.result.categorization.byType.original) = 3
    /\ e.result.analytics # JNull

\* C18: with analytics enabled, a freshly fetched result of
\* GetUserRepositoriesUseCase.execute has analytics = null exactly when the
\* fetched list is empty; for a non-empty list analytics is an object whose
\* overview counts the fetched items.
C18_AnalyticsNullIffEmpty ==
  \A e \in Executions :
    (/\ e.op = "repos" /\ e.outcome = "returned" /\ ~e.fromCache
     /\ Truthy(Spread(defaultOptions, e.options).includeAnalytics)) =>
      /\ (e.result.analytics = JNull) <=> (e.listing = <<>>)
      /\ e.listing # <<>> =>
           /\ DOMAIN e.result.analytics =
                {"overview", "languages", "activity", "popularity", "trends"}
           /\ e.result.analytics.overview.totalRepositories = JNum(Len(e.listing))

\* an empty list was fetched with analytics enabled and analytics is null
C18_Witness ==
  \E e \in Executions :
    /\ e.op = "repos" /\ e.outcome = "returned" /\ ~e.fromCache
    /\ Truthy(Spread(defaultOptions, e.options).includeAnalytics)
    /\ e.listing = <<>>
    /\ e.httpRequests = 1
    /\ e.result.analytics = JNull

\* C19: language percentages add up.  Whenever a freshly fetched, non-empty
\* list whose items all have a language is analysed, the percentage fields of
\* analytics.languages.distribution sum to 100 give or take one unit per
\* entry of the distribution.
C19_PercentagesSumTo100 ==
  \A e \in Executions :
    (/\ e.op = "repos" /\ e.outcome = "returned" /\ ~e.fromCache
     /\ e.listing # <<>>
     /\ \A i \in DOMAIN e.listing : e.listing[i].language.t = "string"
     /\ e.result.analytics # JNull) =>
      LET d == e.result.analytics.languages.distribution
          sum == SumSeq([i \in DOMAIN d |-> d[i].percentage.n])
      IN sum - 100 <= Len(d) /\ 100 - sum <= Len(d)

\* C20: counts are clamped, never rejected.  Whatever numbers, nulls or gaps
\* the payload has for its counts, the use case returns, each count of the
\* User or Repository built from it is the payload's number when that is
\* positive and 0 otherwise, and the item's isPopular is true exactly when its
\* stored star count is at least 100.
C20_CountsClamped ==
  \A e \in Executions :
    e.payload # <<>> =>
      LET given(k) == IF k \in DOMAIN e.payload /\ e.payload[k].t = "number"
                      THEN e.payload[k].n ELSE 0
          stored(k) == JNum(IF given(k) > 0 THEN given(k) ELSE 0)
      IN /\ e.outcome = "returned"
         /\ e.op = "user" =>
              /\ e.user.followers = stored("followers")
              /\ e.user.following = stored("following")
              /\ e.user.publicRepos = stored("public_repos")
         /\ e.op = "repos" =>
              /\ Len(e.result.repositories) = 1
              /\ LET item == e.result.repositories[1]
                 IN /\ item.class = "Repository"
                    /\ item.props.stargazersCount = stored("stargazers_count")
                    /\ item.props.forksCount = stored("forks_count")
                    /\ item.props.watchersCount = stored("watchers_count")
                    /\ item.props.size = stored("size")
                    /\ ReadProperty(item, "isPopular", e.endedAt) =
                         JBool(given("stargazers_count") >= 100)

\* an item with stargazers_count = -5 was built with stargazersCount = 0 and
\* is not popular
C20_Witness ==
  \E e \in Executions :
    /\ e.op = "repos" /\ e.outcome = "returned"
    /\ "stargazers_count" \in DOMAIN e.payload
    /\ e.payload.stargazers_count = JNum(-5)
    /\ e.result.repositories[1].props.stargazersCount = JNum(0)
    /\ ReadProperty(e.result.repositories[1], "isPopular", e.endedAt) = JBool(FALSE)

\* C21: a payload lacking a required field is a ValidationError.  Whenever
\* the remote answers with an account or an owned item in which a required
\* field is missing or null, findByUsername / findUserRepositories throw a
\* ValidationError and execute throws that ValidationError.
C21_MissingFieldIsValidationError ==
  \A e \in Executions :
    LET required == IF e.op = "user" THEN {"id", "login", "avatar_url", "html_url"}
                    ELSE {"id", "name", "full_name", "html_url"}
    IN (/\ e.op \in {"user", "repos"}
        /\ e.httpRequests = 1 /\ e.transportOk
        /\ \E k \in required : k \notin DOMAIN e.payload \/ e.payload[k] = JNull) =>
         /\ e.outcome = "threw"
         /\ e.gatewayError.name = "ValidationError"
         /\ e.error.name = "ValidationError"

\* C22: the owned-items cache key is injective.  Two owned-items requests
\* that differ in the normalised identifier or in one of page, perPage, sort,
\* direction, language filter or type filter have different cache keys, and
\* an owned-items key is never an account key.
C22_KeyInjective ==
  \A e1, e2 \in Executions :
    LET scope(e) ==
          <<e.path,
            [k \in {"page", "perPage", "sort", "direction"} |->
               Spread(defaultOptions, e.options)[k]],
            Prop(e.options, "language"), Prop(e.options, "type")>>
    IN /\ (/\ e1.op = "repositoriesKey" /\ e2.op = "repositoriesKey"
            /\ scope(e1) # scope(e2)) => e1.cacheKey # e2.cacheKey
       /\ (e1.op = "repositoriesKey" /\ e2.op = "userKey") => e1.cacheKey # e2.cacheKey

\* C23: a rate-limit failure ends the request.  Once an attempt of
\* HttpClient.request has been answered 429, the request makes no further
\* attempt: it is over, with RateLimitError thrown, and that answer is its last.
C23_RateLimitNotRetried ==
  \A i \in DOMAIN http.responses :
    http.responses[i].status = 429 =>
      /\ http.pc = "done"
      /\ http.calls = i
      /\ http.outcome = "threw"
      /\ http.error.name = "RateLimitError"

\* a failed answer after which request() goes round its loop again
Retryable(a) ==
  \/ ~a.hasResponse
      /\ a.code \in {"ECONNRESET", "ECONNREFUSED", "ENOTFOUND", "ETIMEDOUT", "ECONNABORTED"}
  \/ a.hasResponse /\ a.status >= 500
  \/ a.hasResponse /\ a.status = 429

C28_BackoffSequencing ==
  /\ http.calls - Len(http.responses) \in {0, 1}
  /\ (http.pc = "inflight") <=> (http.calls - Len(http.responses) = 1)
  /\ http.calls >= 1 => Len(http.delays) = http.calls - 1
  /\ \A n \in DOMAIN http.delays :
       /\ http.delays[n] = AppRetryDelay * n
       /\ n \in DOMAIN http.responses /\ ~http.responses[n].ok
  /\ now >= StartTime + SumSeq(http.delays)
  /\ (http.pc = "done" /\ http.outcome = "threw") =>
       /\ Len(http.delays) = Len(http.responses) - 1
       /\ now = StartTime + SumSeq(http.delays)

\* three attempts were made, the second after 1 * retryDelay and the third
\* after 2 * retryDelay more, and the request has thrown
C28_Witness ==
  /\ http.pc = "done" /\ http.outcome = "threw" /\ http.calls = 3
  /\ http.delays = <<AppRetryDelay, 2 * AppRetryDelay>>
  /\ now = StartTime + 3 * AppRetryDelay

\* C24: error handling of the two execute operations.  When execute throws,
\* a ValidationError of its own validation and a UserNotFoundError or
\* ValidationError thrown by the repository leave it as they are; any other
\* failure leaves it as a NetworkError about the identifier the caller passed,
\* with the original failure as its originalError.
C24_ErrorHandling ==
  \A e \in Executions :
    (e.op \in {"user", "repos"} /\ e.outcome = "threw") =>
      IF e.repositoryCalls = 0
      THEN e.error \in {ValidationError(f) :
                          f \in {"username", "page", "perPage", "sort", "direction"}}
      ELSE IF e.gatewayError.name \in {"UserNotFoundError", "ValidationError"}
           THEN e.error = e.gatewayError
           ELSE /\ e.error.name = "NetworkError"
                /\ e.error.about = e.input.chars
                /\ e.error.cause = e.gatewayError

\* the repository threw a UserNotFoundError and execute threw the same
C24_WitnessNotFound ==
  \E e \in Executions :
    /\ e.op = "repos" /\ e.outcome = "threw" /\ e.repositoryCalls = 1
    /\ e.gatewayError = UserNotFoundError(<<"a", "b">>)
    /\ e.error = e.gatewayError

\* an account request for " Ab<tab>" failed on a 503 to every attempt: execute
\* threw a NetworkError about " Ab<tab>" that wraps the repository's error
C24_Witness ==
  \E e \in Executions :
    /\ e.op = "user" /\ e.outcome = "threw"
    /\ e.input.chars = <<" ", "A", "b", "\t">>
    /\ e.finalStatus = 503 /\ e.attempts = 3
    /\ e.gatewayError.name = "NetworkError"
    /\ e.error.name = "NetworkError"
    /\ e.error.cause = e.gatewayError

\* C25: the pagination hint counts what the remote returned.  In every
\* freshly fetched owned-items result, pagination.hasMore is true exactly when
\* the number of fetched items equals perPage, whatever the filters.
C25_HasMoreCountsFetched ==
  \A e \in Executions :
    (e.op = "repos" /\ e.outcome = "returned" /\ ~e.fromCache) =>
      e.result.pagination.hasMore =
        JBool(Len(e.listing) = Spread(defaultOptions, e.options).perPage.n)

\* the profile field a suggestion string is about
SuggestionField(text) ==
  CASE text = "Adicione seu nome completo" -> "name"
    [] text = "Escreva uma bio descrevendo suas atividades" -> "bio"
    [] text = "Adicione sua localização" -> "location"
    [] text = "Mencione sua empresa ou organização" -> "company"
    [] text = "Adicione um link para seu website ou blog" -> "blog"
    [] text = "Torne seu email público se desejar" -> "email"
    [] OTHER -> "twitter"

\* C26: profile completeness.  For every account returned by
\* GetUserUseCase.execute, missingFields names exactly the absent ones of the
\* seven weighted fields, percentage is round(100 * weight of the present
\* fields / 90), and suggestions has one string per missing field, in the
\* order of the fields.
C26_ProfileCompleteness ==
  \A e \in Executions :
    (e.op = "user" /\ e.outcome = "returned") =>
      LET pc == e.metadata.profileCompleteness
          order == <<"name", "bio", "location", "company", "blog", "email", "twitter">>
          weight == [name |-> 20, bio |-> 15, location |-> 10, company |-> 10,
                     blog |-> 10, email |-> 15, twitter |-> 10]
          prop(f) == IF f = "twitter" THEN "twitterUsername" ELSE f
          absent == SelectSeq(order, LAMBDA f : e.user[prop(f)] = JNull)
          present == SelectSeq(order, LAMBDA f : e.user[prop(f)] # JNull)
      IN /\ pc.missingFields = absent
         /\ pc.percentage =
              JNum(Round(100 * SumSeq([i \in DOMAIN present |-> weight[present[i]]]), 90))
         /\ [i \in DOMAIN pc.suggestions |-> SuggestionField(pc.suggestions[i])] = absent

\* C29: the cache-aside protocol of the two use cases.  An execution reads
\* the cache only with useCache true and forceRefresh false; an execution that
\* returned fromCache = true made no remote call and no cache write; and an
\* execution with useCache false made no cache read and no cache write and
\* left the Map as it was.
C29_CacheAside ==
  /\ \A e \in Executions :
       e.op \in {"user", "repos"} =>
         /\ e.cacheReads > 0 => (e.useCache /\ ~e.forceRefresh)
         /\ (e.outcome = "returned" /\ e.fromCache) =>
              /\ e.cacheReads = 1
              /\ e.httpRequests = 0 /\ e.attempts = 0
              /\ e.cacheWrites = 0
         /\ ~e.useCache => (e.cacheReads = 0 /\ e.cacheWrites = 0)
  /\ (Len(execs) = 2 /\ ~execs[2].useCache) => execs[2].store = execs[1].store

\* an owned-items request was answered from the cache
C29_Witness ==
  \E e \in Executions :
    /\ e.op = "repos" /\ e.outcome = "returned" /\ e.fromCache
    /\ e.useCache /\ ~e.forceRefresh
    /\ e.cacheReads = 1 /\ e.httpRequests = 0 /\ e.cacheWrites = 0

\* C30: the owned-items operation applies the naming rule of the account
\* operation.  Whenever GetUserUseCase.execute has rejected an identifier with
\* ValidationError, GetUserRepositoriesUseCase.execute called with the same
\* identifier throws ValidationError without any cache or remote call.
C30_SameNamingRule ==
  \A e1, e2 \in Executions :
    (/\ e1.op = "user" /\ e1.outcome = "threw" /\ e1.error.name = "ValidationError"
     /\ e2.op = "repos" /\ e2.input = e1.input) =>
      /\ e2.outcome = "threw"
      /\ e2.error.name = "ValidationError"
      /\ NoCalls(e2)

\* C31: GetUserUseCase.userExists.  For an argument that validateInput
\* rejects it throws ValidationError without any remote call; for any other
\* argument it returns, true when the remote request succeeded and false on
\* every failure.
C31_UseCaseUserExists ==
  \A e \in Executions :
    e.op = "useCaseUserExists" =>
      LET name == trim(e.input.chars)
          valid == /\ e.input.type = "string" /\ name # <<>>
                   /\ Len(name) <= MaxUsernameLength
                   /\ IsAlnum(name[1])
                   /\ \A i \in DOMAIN name : IsAlnum(name[i]) \/ name[i] = "-"
      IN IF valid
         THEN /\ e.outcome = "returned"
              /\ e.httpRequests = 1
              /\ e.exists = e.transportOk
         ELSE /\ e.outcome = "threw"
              /\ e.error.name = "ValidationError"
              /\ NoCalls(e)

\* a valid identifier was looked up, the remote answered 503 to all three
\* attempts, and userExists returned false
C31_Witness ==
  \E e \in Executions :
    /\ e.op = "useCaseUserExists" /\ e.outcome = "returned"
    /\ e.input = StrArg(<<"a", "B", "7">>)
    /\ e.attempts = 3 /\ e.finalStatus = 503
    /\ ~e.exists

\* C32: request tokens of useUser are strictly increasing.  Of two fetches of
\* the same kind, the one issued later carries the strictly greater token.
C32_TokensStrictlyIncreasing ==
  \A i, j \in DOMAIN hook.calls :
    (i < j /\ hook.calls[i].kind = hook.calls[j].kind) =>
      hook.calls[i].id < hook.calls[j].id

C34_OwnOptionsApplied ==
  \A e \in Executions :
    (e.op = "repos" /\ e.outcome = "returned") =>
      LET o == e.options
          items == e.result.repositories
          passes(item) ==
            LET r == item.props
            IN /\ "language" \in DOMAIN o =>
                    r.language.t = "string"
                    /\ LowerOf(r.language.s) = LowerOf(o.language.s)
               /\ ("type" \in DOMAIN o /\ o.type = JStr("fork")) =>
                    r.isFork = JBool(TRUE)
               /\ ("type" \in DOMAIN o /\ o.type = JStr("source")) =>
                    r.isFork = JBool(FALSE)
               /\ "minStars" \in DOMAIN o => r.stargazersCount.n >= o.minStars.n
               /\ ("activeOnly" \in DOMAIN o /\ o.activeOnly = JBool(TRUE)) =>
                    ReadProperty(item, "isActiveRepository", e.endedAt) = JBool(TRUE)
          inOrder(i, j) ==
            LET a == items[i].props
                b == items[j].props
            IN /\ ("customSort" \in DOMAIN o /\ o.customSort = JStr("stars")) =>
                    a.stargazersCount.n >= b.stargazersCount.n
               /\ ("customSort" \in DOMAIN o /\ o.customSort = JStr("name")) =>
                    CollationRank(a.name.s) <= CollationRank(b.name.s)
      IN /\ \A i \in DOMAIN items : passes(items[i])
         /\ \A i, j \in DOMAIN items : i < j => inOrder(i, j)

\* C35: the execution of either use case that follows
\* clearUserCache("ab"), for "ab" and with caching enabled, is not served
\* from the cache and makes a remote call.
C35_ClearedMeansRefetched ==
  (/\ Len(execs) = 2
   /\ execs[1].op = "clearUserCache"
   /\ execs[2].op \in {"user", "repos"}
   /\ execs[2].useCache
   /\ execs[2].outcome = "returned")
  => (~execs[2].fromCache /\ execs[2].httpRequests = 1)

\* the calls of a kind, and the one issued last
CallsOf(kind) == {i \in DOMAIN hook.calls : hook.calls[i].kind = kind}
LastOf(kind) == CHOOSE i \in CallsOf(kind) : \A j \in CallsOf(kind) : j <= i

\* C36: loading flag of useUser, per kind.  While the fetch issued last is
\* pending and no clearData has followed it, isLoading is true; once every
\* fetch issued has settled, isLoading is false and the ref holds null.
C36_LoadingFlag ==
  \A kind \in Kinds :
    CallsOf(kind) # {} =>
      /\ (/\ hook.calls[LastOf(kind)].status = "pending"
          /\ ~hook.calls[LastOf(kind)].cleared)
         => hook.view[kind].isLoading
      /\ (\A i \in CallsOf(kind) : hook.calls[i].status = "settled")
         => (~hook.view[kind].isLoading /\ hook.current[kind] = NoRequest)

\* C37: latest request wins in useUser.  Once every fetch of a kind has
\* settled, no clearData having been called, the hook's state of that kind
\* holds the outcome of the fetch issued last: its data when it succeeded,
\* its error when it failed.
C37_LatestRequestWins ==
  \A kind \in Kinds :
    (/\ CallsOf(kind) # {}
     /\ \A i \in CallsOf(kind) :
          hook.calls[i].status = "settled" /\ ~hook.calls[i].cleared)
    => LET last == LastOf(kind)
       IN IF hook.calls[last].ok
          THEN hook.view[kind].data = last /\ hook.view[kind].error = 0
          ELSE hook.view[kind].error = last /\ hook.view[kind].data = 0

\* C38: of two overlapping execute("ab") calls that both fetched from the
\* remote, the one started last leaves its data in the cache, in whatever
\* order the two responses arrived.
C38_LastStartedFetchWins ==
  (/\ Len(execs) = 2
   /\ \A i \in 1..2 : /\ execs[i].outcome = "returned" /\ ~execs[i].fromCache
                       /\ execs[i].cacheWrites = 1
   /\ execs[2].startedAt < execs[1].endedAt)
  => /\ getUserCacheKey(<<"a", "b">>) \in DOMAIN store
     /\ \E at \in {execs[1].endedAt, execs[2].endedAt} :
          store[getUserCacheKey(<<"a", "b">>)].value
            = ObjBody(JsonObject(User_toJSON(execs[2].user, at)))

\* C14: supersession in useUser. A call of fetchUser (fetchUserRepositories)
\* that was still pending when a newer call of the same kind was issued never
\* writes its outcome to the hook's state, whenever it settles: it makes no
\* write, and no state of its kind holds its result or its error.
C14_SupersededNeverWrites ==
  \A i \in DOMAIN hook.calls :
    hook.calls[i].superseded =>
      /\ ~hook.calls[i].wrote
      /\ hook.view[hook.calls[i].kind].data # i
      /\ hook.view[hook.calls[i].kind].meta # i
      /\ hook.view[hook.calls[i].kind].error # i

\* C15: fetchUserProfile never rejects, and once both of its fetches have
\* settled its result carries, for the account fetch and for the owned-items
\* fetch independently, the value if that fetch succeeded and the error if it
\* failed: a failure of one leaves the other's value in the result.
C15_ProfileFanOut ==
  \A p \in DOMAIN hook.profiles :
    LET q == hook.profiles[p]
        u == hook.calls[q.user]
        r == hook.calls[q.repositories]
    IN /\ u.kind = "user" /\ r.kind = "repositories"
       /\ ~q.result.rejected
       /\ q.status = "settled" =>
            /\ u.status = "settled" /\ r.status = "settled"
            /\ (q.result.user = q.user) = u.ok
            /\ (q.result.userError = q.user) = ~u.ok
            /\ (q.result.repositories = q.repositories) = r.ok
            /\ (q.result.repositoriesError = q.repositories) = ~r.ok
            /\ q.result.user \in {0, q.user}
            /\ q.result.userError \in {0, q.user}
            /\ q.result.repositories \in {0, q.repositories}
            /\ q.result.repositoriesError \in {0, q.repositories}

C15_Witness ==
  \E p \in DOMAIN hook.profiles :
    /\ hook.profiles[p].status = "settled"
    /\ hook.profiles[p].result.user = 0
    /\ hook.profiles[p].result.userError = hook.profiles[p].user
    /\ hook.profiles[p].result.repositories = hook.profiles[p].repositories
    /\ hook.view["repositories"].data = hook.profiles[p].repositories
    /\ hook.view["user"].error = hook.profiles[p].user

\* C13: userExists never throws: it returns true when the account GET
\* succeeds (at the first attempt or after retries) and false for every
\* failure of it, be it 404, rate limit, 5xx or a network error.
C13_UserExistsNeverThrows ==
  \A e \in Executions :
    e.op = "userExists" =>
      /\ e.outcome = "returned"
      /\ e.exists = e.transportOk
      /\ e.exists = (e.finalStatus = 200)

C13_Witness ==
  /\ Len(execs) >= 1
  /\ execs[1].op = "userExists"
  /\ execs[1].outcome = "returned"
  /\ ~execs[1].exists
  /\ execs[1].attempts = AppRetryAttempts
  /\ execs[1].transportError.name = "RateLimitError"

\* C12: cache failures never surface. Whatever methods of the cache throw, no
\* repository cache method throws to the use case, and execute fails only on
\* an invalid input or a failed fetch: once the fetch has succeeded it returns
\* the fetched result. A get that throws is a miss (the result is not from the
\* cache and the remote is asked); a set that throws writes nothing; a del or
\* flush that throws leaves the entries where they are.
C12_CacheFailuresNeverSurface ==
  /\ \A e \in Executions :
       /\ ~e.cacheThrew
       /\ e.outcome = "threw" =>
            \/ e.error.name = "ValidationError"
            \/ (e.httpRequests = 1 /\ e.gatewayError # BaseErr)
       /\ (e.httpRequests = 1 /\ e.gatewayError = BaseErr) =>
            /\ e.outcome = "returned"
            /\ ~e.fromCache
            /\ e.op = "user" => e.user # EmptyObj
       /\ ("get" \in cacheLog.throws /\ e.cacheReads = 1) =>
            /\ ~e.fromCache
            /\ e.httpRequests = 1
  /\ "set" \in cacheLog.throws => store = EmptyStore
  /\ (cacheLog.op = "clearAllCache" /\ "flush" \notin cacheLog.throws) =>
       ~cacheLog.present
  /\ (cacheLog.op = "clearUserCache" /\ "del" \notin cacheLog.throws) =>
       ~cacheLog.present

C12_Witness ==
  /\ cacheLog.throws = {"get", "set", "del", "flush"}
  /\ cacheLog.op = "clearAllCache"
  /\ Len(execs) = 2
  /\ execs[1].op = "repos" /\ execs[2].op = "repos"
  /\ execs[1].options = EmptyObj /\ execs[2].options = EmptyObj
  /\ execs[1].input = execs[2].input
  /\ execs[1].outcome = "returned" /\ execs[2].outcome = "returned"
  /\ execs[1].cacheReads = 1 /\ execs[1].cacheWrites = 1
  /\ execs[2].cacheReads = 1 /\ ~execs[2].fromCache
  /\ Len(execs[2].result.repositories) = 1
  /\ execs[1].httpRequests + execs[2].httpRequests = 2

\* C3: findByUsername raises UserNotFoundError whenever the remote answers the
\* account GET with 404 (the transport being the real HttpClient): every
\* execution whose fetch was answered 404 got UserNotFoundError from the gateway.
C3_NotFoundOn404 ==
  \A e \in Executions :
    (e.httpRequests = 1 /\ ~e.transportOk /\ e.finalStatus = 404) =>
       /\ e.outcome = "threw"
       /\ e.gatewayError.name = "UserNotFoundError"

\* C4: a RateLimitError raised by the transport during the account fetch reaches
\* the caller of execute as a RateLimitError with the same limit and reset.
C4_RateLimitNotRewrapped ==
  \A e \in Executions :
    (e.httpRequests = 1 /\ ~e.transportOk /\ e.transportError.name = "RateLimitError") =>
       /\ e.outcome = "threw"
       /\ e.error.name = "RateLimitError"
       /\ e.error.limit = e.transportError.limit
       /\ e.error.reset = e.transportError.reset

\* the naming rule as the specification words it: a string that, trimmed, is
\* not empty, is at most 39 characters of letters, digits and hyphens, and
\* neither starts nor ends with a hyphen
NamingRuleHolds(a) ==
  /\ a.type = "string"
  /\ LET t == trim(a.chars)
     IN /\ Len(t) >= 1
        /\ Len(t) <= 39
        /\ \A i \in 1..Len(t) :
             t[i] \in Range(UpperChars) \cup Range(LowerChars) \cup Digits \cup {"-"}
        /\ t[1] # "-"
        /\ t[Len(t)] # "-"

\* C5: for every identifier that fails the naming rule, execute raises
\* ValidationError and makes no repository, cache or network call.
C5_InvalidIdentifierRejected ==
  \A e \in Executions :
    ~NamingRuleHolds(e.input) =>
       /\ e.outcome = "threw"
       /\ e.error.name = "ValidationError"
       /\ NoCalls(e)

\* two inputs that differ only in letter case or surrounding whitespace
SameLetters(x, y) ==
  /\ Len(x) = Len(y)
  /\ \A i \in 1..Len(x) : LowerChar(x[i]) = LowerChar(y[i])
SameIdentifier(a, b) ==
  /\ a.type = "string"
  /\ b.type = "string"
  /\ SameLetters(trim(a.chars), trim(b.chars))

\* the entry the first execution wrote has not expired when the second starts
NotYetExpired(first, second) ==
  second.startedAt <= first.endedAt + UserTtlSeconds * 1000

\* C6: two sequential execute calls for the same identifier, with caching
\* enabled, no forced refresh and the entry not yet expired, give identical
\* account data with exactly one remote request; the second has fromCache = true.
C6_CacheAsideIdempotent ==
  (/\ Len(execs) = 2
   /\ SameIdentifier(execs[1].input, execs[2].input)
   /\ execs[1].useCache /\ ~execs[1].forceRefresh
   /\ execs[2].useCache /\ ~execs[2].forceRefresh
   /\ execs[1].outcome = "returned"
   /\ NotYetExpired(execs[1], execs[2])) =>
     /\ execs[2].outcome = "returned"
     /\ execs[2].fromCache
     /\ execs[2].user = execs[1].user
     /\ execs[1].httpRequests + execs[2].httpRequests = 1

\* C8: a forced refresh never reads the cache and never answers from it; when
\* execute is called on a fresh cache with caching enabled and then again for
\* the same identifier with forceRefresh = true, both results have
\* fromCache = false and exactly 2 remote account requests are made.
C8_ForcedRefresh ==
  /\ \A e \in Executions :
       (e.forceRefresh /\ e.error.name # "ValidationError") =>
          /\ e.cacheReads = 0
          /\ ~e.fromCache
          /\ e.httpRequests = 1
  /\ (/\ Len(execs) = 2
      /\ execs[1].seq = 1
      /\ SameIdentifier(execs[1].input, execs[2].input)
      /\ execs[1].useCache /\ ~execs[1].forceRefresh
      /\ execs[2].useCache /\ execs[2].forceRefresh
      /\ execs[1].outcome = "returned"
      /\ execs[2].outcome = "returned") =>
        /\ ~execs[1].fromCache
        /\ ~execs[2].fromCache
        /\ execs[1].httpRequests + execs[2].httpRequests = 2

C8_Witness ==
  /\ Len(execs) = 2
  /\ execs[1].seq = 1
  /\ execs[1].input # execs[2].input
  /\ SameIdentifier(execs[1].input, execs[2].input)
  /\ execs[1].useCache /\ ~execs[1].forceRefresh
  /\ execs[2].useCache /\ execs[2].forceRefresh
  /\ execs[1].outcome = "returned" /\ execs[2].outcome = "returned"
  /\ execs[1].cacheWrites = 1
  /\ execs[2].cacheReads = 0
  /\ NotYetExpired(execs[1], execs[2])
  /\ execs[1].httpRequests + execs[2].httpRequests = 2

\* C9: executions whose identifiers differ only in letter case or surrounding
\* whitespace send the same string to the remote, and that string (the trimmed
\* identifier in lower case) is what the cache key is built from: they address
\* the same cache entry.
C9_NormalizedIdentifier ==
  /\ \A e \in Executions :
       e.error.name # "ValidationError" =>
          /\ e.httpRequests = 1 =>
               /\ SameLetters(e.path, trim(e.input.chars))
               /\ \A i \in 1..Len(e.path) : e.path[i] \notin Range(UpperChars)
          /\ e.cacheKey # <<>> =>
               /\ SameLetters(e.cacheKey, KeyPrefixUser \o trim(e.input.chars))
               /\ \A i \in 1..Len(e.cacheKey) : e.cacheKey[i] \notin Range(UpperChars)
          /\ (e.httpRequests = 1 /\ e.cacheKey # <<>>) =>
               e.cacheKey = KeyPrefixUser \o e.path
  /\ \A e1, e2 \in Executions :
       (/\ SameIdentifier(e1.input, e2.input)
        /\ e1.error.name # "ValidationError") =>
          /\ e2.error.name # "ValidationError"
          /\ (e1.httpRequests = 1 /\ e2.httpRequests = 1) => e1.path = e2.path
          /\ (e1.cacheKey # <<>> /\ e2.cacheKey # <<>>) => e1.cacheKey = e2.cacheKey
          /\ (e1.cacheWrites = 1 /\ e2.cacheReads = 1 /\ e1.seq < e2.seq
              /\ NotYetExpired(e1, e2)) =>
               e2.cacheKey \in DOMAIN store

C9_Witness ==
  /\ Len(execs) = 2
  /\ execs[1].input = StrArg(<<" ", "A", "b", "\t">>)
  /\ execs[2].input = StrArg(<<"a", "b">>)
  /\ execs[1].cacheWrites = 1
  /\ execs[2].cacheReads = 1
  /\ execs[1].path = <<"a", "b">>
  /\ execs[2].path = <<"a", "b">>
  /\ execs[1].cacheKey = execs[2].cacheKey
  /\ NotYetExpired(execs[1], execs[2])
  /\ execs[2].cacheKey \in DOMAIN store

\* the properties of an owned item that callers read
ItemProperties ==
  {"id", "name", "fullName", "language", "stargazersCount", "forksCount", "isFork",
   "createdAt", "updatedAt", "pushedAt", "popularityScore", "isPopular",
   "formattedStars", "formattedForks"}

\* two result lists hold the same items: item by item, every property reads
\* the same
SameItems(xs, ys) ==
  /\ Len(xs) = Len(ys)
  /\ \A i \in 1..Len(xs) :
       \A name \in ItemProperties :
         ReadProperty(xs[i], name, now) = ReadProperty(ys[i], name, now)

SameCategorization(c, d) ==
  /\ SameItems(c.byType.original, d.byType.original)
  /\ SameItems(c.byType.forked, d.byType.forked)
  /\ SameItems(c.byActivity.active, d.byActivity.active)
  /\ SameItems(c.byActivity.inactive, d.byActivity.inactive)
  /\ SameItems(c.byPopularity.popular, d.byPopularity.popular)
  /\ SameItems(c.byPopularity.standard, d.byPopularity.standard)
  /\ SameItems(c.byMaintenance.wellMaintained, d.byMaintenance.wellMaintained)
  /\ SameItems(c.byMaintenance.needsAttention, d.byMaintenance.needsAttention)

\* two sequential owned-items executions for the same identifier and options,
\* caching enabled, no forced refresh, the first one returned and its entry
\* not yet expired when the second starts
TwoCachedListings ==
  /\ Len(execs) = 2
  /\ execs[1].op = "repos" /\ execs[2].op = "repos"
  /\ SameIdentifier(execs[1].input, execs[2].input)
  /\ execs[1].options = execs[2].options
  /\ execs[1].useCache /\ ~execs[1].forceRefresh
  /\ execs[1].outcome = "returned"
  /\ execs[2].startedAt <= execs[1].endedAt + RepositoriesTtlSeconds * 1000

\* C7: two sequential owned-items execute calls with the same identifier and
\* options, caching enabled and no forced refresh, cause exactly one remote
\* listing request; the second returns fromCache = true with the same
\* repositories, totalCount, analytics, categorization and statistics as the
\* first.
C7_ListingCacheAsideIdempotent ==
  TwoCachedListings =>
    /\ execs[2].outcome = "returned"
    /\ execs[2].fromCache
    /\ execs[1].httpRequests + execs[2].httpRequests = 1
    /\ SameItems(execs[1].result.repositories, execs[2].result.repositories)
    /\ execs[2].result.totalCount = execs[1].result.totalCount
    /\ execs[2].result.analytics = execs[1].result.analytics
    /\ SameCategorization(execs[1].result.categorization,
                          execs[2].result.categorization)
    /\ execs[2].result.statistics = execs[1].result.statistics

====
